---------------------------- MODULE Spec2Model ----------------------------
(***************************************************************************)
(* Model of the model-packaging / registry-handle core of the SDK:         *)
(*   - ModelPackager.save / load       (snowflake/ml/model/_packager)      *)
(*   - ModelVersion.run / export / load / metric operations                *)
(*   - FeatureView status, JSON conversion and fully_qualified_name        *)
(* Each subsystem has its own specification (SpecPackager, ...) over its   *)
(* own group of variables; the other groups stay at their initial value.   *)
(***************************************************************************)
EXTENDS Integers, Sequences, FiniteSets, TLC

VARIABLES
    pkDisk,       \* packager: directory path -> package on disk (or NoPkg)
    pkSaved,      \* packager: directory path -> the last successful save call
    pkLast,       \* packager: the last packager call and what it returned
    mvFunctions,  \* ModelVersion._functions, fetched once by _ref
    mvRun,        \* the last ModelVersion.run call, its outcome, the invoke_method calls it made
    fs,           \* local file system: path -> absent, file, or directory with entries
    mvExport,     \* the last ModelVersion.export call, its outcome, the download_files calls it made
    mvEnv,        \* the environment recorded in the logged model and the local one
    mvLoad,       \* the last ModelVersion.load call, its outcome and the steps it took
    mtStore,      \* the metric map in the version's remote metadata
    mtSaves,      \* number of metadata saves so far
    mtCaller,     \* caller -> where it is in its metric operation, and the map it loaded
    mtDone,       \* caller -> its last completed metric operation and the outcome
    fvObj,        \* the FeatureView object at hand (or NoFv)
    fvJson,       \* the last to_json output (or NoJson)
    fvBuiltBy,    \* how fvObj was obtained: constructor, register, from_json
    fvLast,       \* the last FeatureView operation and its outcome
    cmPackagerWorkspace, \* composer: the packager's temporary directory
    cmWorkspace,  \* composer: the temporary directory that maps to the stage path
    cmStage,      \* composer: what the stage path holds
    cmLast,       \* composer: the last constructor / save / __del__ call and its outcome
    lmRegistry,   \* registry: (model, version) -> the entry create_from_stage made
    lmLast,       \* the last log_model call, the calls it made, its outcome and handle
    pkHeld,       \* packager: an instance a caller loaded and kept
    pkPredicted,  \* packager: the last prediction of the kept instance
    trCache,      \* trainer: session._FIT_WRAPPER_SPROCS, key -> stored procedure
    trRegistered, \* trainer: key -> number of procedures registered for it
    trLast,       \* trainer: the last train* call, the calls it made and its outcome
    cxLast,       \* cortex: the last Complete call and its result
    gsEstimator,  \* grid search: the estimator given to the constructor
    gsIsFitted,   \* grid search: GridSearchCV._is_fitted
    gsModelSignatureDict, \* grid search: GridSearchCV._model_signature_dict
    gsFitSucceeded, \* grid search: whether a fit call has returned normally
    gsLast,       \* grid search: the last constructor / fit / inference call
    enArgs,       \* entity: the arguments of the Entity constructor call at hand
    enLast,       \* entity: the last Entity constructor call and its outcome
    hdFetched,    \* handle: the list _get_functions returned when the handle was made
    hdComment,    \* handle: the comment of the version in the registry
    hdAliases,    \* handle: the aliases of the version in the registry
    hdLast        \* handle: the last show_functions / comment / alias call

pkVars == <<pkDisk, pkSaved, pkLast>>
runVars == <<mvFunctions, mvRun>>
expVars == <<fs, mvExport>>
loadVars == <<mvEnv, mvLoad>>
mtVars == <<mtStore, mtSaves, mtCaller, mtDone>>
fvVars == <<fvObj, fvJson, fvBuiltBy, fvLast>>
cmVars == <<cmPackagerWorkspace, cmWorkspace, cmStage, cmLast>>
lmVars == <<lmRegistry, lmLast>>
paVars == <<pkHeld, pkPredicted>>
trVars == <<trCache, trRegistered, trLast>>
cxVars == <<cxLast>>
gsVars == <<gsEstimator, gsIsFitted, gsModelSignatureDict, gsFitSucceeded, gsLast>>
enVars == <<enArgs, enLast>>
hdVars == <<hdFetched, hdComment, hdAliases, hdLast>>
moreVars == <<gsVars, enVars, hdVars>>
extVars == <<cmVars, lmVars, paVars, trVars, cxVars, moreVars>>
coreVars == <<pkVars, runVars, expVars, loadVars, mtVars, fvVars>>
nonFvVars == <<pkVars, runVars, expVars, loadVars, mtVars, extVars>>
vars == <<pkVars, runVars, expVars, loadVars, mtVars, fvVars, extVars>>

(***************************************************************************)
(* Optional values (Python's None).                                        *)
(***************************************************************************)
None == [some |-> FALSE]
Some(v) == [some |-> TRUE, v |-> v]
IsNone(o) == ~o.some

(***************************************************************************)
(*                          MODEL PACKAGER                                 *)
(***************************************************************************)

\* Directories the tests save into.
Dirs == {"model1"}

\* Method names a caller may name; "another_predict" and "random" are
\* methods no model has.
MethodNames == {"predict", "predict_proba", "another_predict"}

EmptyArtifacts == [a \in {} |-> 0]

\* In-memory model objects: a custom model that reads its bias from an
\* artifact file when constructed, plain estimators of the external
\* libraries, and a self-describing estimator of this library.
DemoModelWithArtifacts(b) ==
    [cls |-> "DemoModelWithArtifacts", kind |-> "custom", methods |-> {"predict"},
     weight |-> 1, artifacts |-> [a \in {"bias"} |-> b], bias |-> b]
LinearRegressionSkl ==
    [cls |-> "sklearn.LinearRegression", kind |-> "sklearn", methods |-> {"predict"},
     weight |-> 2, artifacts |-> EmptyArtifacts, bias |-> 0]
XGBClassifier ==
    [cls |-> "xgboost.XGBClassifier", kind |-> "xgboost",
     methods |-> {"predict", "predict_proba"},
     weight |-> 3, artifacts |-> EmptyArtifacts, bias |-> 0]
LinearRegressionSnowML ==
    [cls |-> "snowml.LinearRegression", kind |-> "snowml", methods |-> {"predict"},
     weight |-> 2, artifacts |-> EmptyArtifacts, bias |-> 0]

Models == {DemoModelWithArtifacts(10), LinearRegressionSkl, XGBClassifier,
           LinearRegressionSnowML}

\* Sample inputs: a frame of one numeric dtype, ncols columns c1.., some rows
\* (each row is represented by the value of its first column).
Samples == {[dtype |-> "INT64", ncols |-> 3, rows |-> <<1, 4>>],
            [dtype |-> "DOUBLE", ncols |-> 1, rows |-> <<2>>]}

Metadatas == {None, Some([k \in {"author"} |-> "halu"])}

\* Mutant of Predict: a custom model reads its artifact file at every call.
Predict_ReadsArtifactFile(m, method, x) ==
    LET bias == IF m.kind = "custom" /\ pkDisk["model1"].present
                THEN pkDisk["model1"].artifacts["bias"] ELSE m.bias IN
    IF method = "predict"
    THEN [dtype |-> x.dtype,
          rows |-> [i \in DOMAIN x.rows |-> m.weight * x.rows[i] + bias]]
    ELSE [dtype |-> "DOUBLE",
          rows |-> [i \in DOMAIN x.rows |-> (m.weight * x.rows[i] + bias) % 2]]

\* The model's method applied to a frame.
Predict(m, method, x) ==
    IF method = "predict"
    THEN [dtype |-> x.dtype,
          rows |-> [i \in DOMAIN x.rows |-> m.weight * x.rows[i] + m.bias]]
    ELSE [dtype |-> "DOUBLE",
          rows |-> [i \in DOMAIN x.rows |-> (m.weight * x.rows[i] + m.bias) % 2]]

\* model_signature.infer_signature(input, output)
infer_signature(x, y) ==
    [inputs |-> [i \in 1..x.ncols |-> [name |-> <<"c", i>>, dtype |-> x.dtype]],
     outputs |-> <<[name |-> "output_feature_0", dtype |-> y.dtype]>>]

\* Whether the handler of this model type can describe its own signatures.
can_infer(m) == m.kind = "snowml"

model_signatures(m) ==
    [k \in m.methods |->
        infer_signature([dtype |-> "DOUBLE", ncols |-> 1, rows |-> <<>>],
                        [dtype |-> "DOUBLE", rows |-> <<>>])]

\* Mutant of validate_target_methods: the names are not checked.
validate_target_methods_Unchecked(m, names) == TRUE

\* handlers_utils.validate_target_methods: every named method is a method of
\* the model.
validate_target_methods(m, names) == names \subseteq m.methods

\* The pickled model: the class and its fitted state. The artifact files of a
\* custom model are copied beside it; what its constructor derived from them
\* (bias) is not part of the blob.
Serialize(m) == [cls |-> m.cls, kind |-> m.kind, methods |-> m.methods, weight |-> m.weight]

\* Mutant of Deserialize: the constructor does not read the artifact files.
Deserialize_NoArtifacts(blob, artifacts) ==
    [cls |-> blob.cls, kind |-> blob.kind, methods |-> blob.methods,
     weight |-> blob.weight, artifacts |-> artifacts, bias |-> 0]

\* Unpickling: a custom model is constructed again from its context, and reads
\* its artifact files at that time.
Deserialize(blob, artifacts) ==
    [cls |-> blob.cls, kind |-> blob.kind, methods |-> blob.methods,
     weight |-> blob.weight, artifacts |-> artifacts,
     bias |-> IF blob.kind = "custom" /\ "bias" \in DOMAIN artifacts
              THEN artifacts["bias"] ELSE 0]

NoPkg == [present |-> FALSE]
NoCall == [call |-> [op |-> "none"], outcome |-> "none"]

\* Mutant of SaveOutcome: a call with neither signatures nor sample is not
\* refused; the model is asked for its signatures.
SaveOutcome_NoNeitherCheck(m, signatures, sample_input, target_methods) ==
    IF signatures.some /\ sample_input.some
    THEN [ok |-> FALSE, error |-> "ValueError", why |-> "both"]
    ELSE IF signatures.some
    THEN IF validate_target_methods(m, DOMAIN signatures.v)
         THEN [ok |-> TRUE, signatures |-> signatures.v]
         ELSE [ok |-> FALSE, error |-> "ValueError", why |-> "target_methods"]
    ELSE LET tm == IF target_methods.some THEN target_methods.v ELSE m.methods IN
         IF ~validate_target_methods(m, tm)
         THEN [ok |-> FALSE, error |-> "ValueError", why |-> "target_methods"]
         ELSE IF sample_input.some
         THEN [ok |-> TRUE,
               signatures |-> [k \in tm |->
                   infer_signature(sample_input.v, Predict(m, k, sample_input.v))]]
         ELSE [ok |-> TRUE, signatures |-> [k \in tm |-> model_signatures(m)[k]]]

\* Mutant of SaveOutcome: signatures win over the sample when both are given.
SaveOutcome_SignaturesWin(m, signatures, sample_input, target_methods) ==
    IF IsNone(signatures) /\ IsNone(sample_input) /\ ~can_infer(m)
    THEN [ok |-> FALSE, error |-> "ValueError", why |-> "neither"]
    ELSE IF signatures.some
    THEN IF validate_target_methods(m, DOMAIN signatures.v)
         THEN [ok |-> TRUE, signatures |-> signatures.v]
         ELSE [ok |-> FALSE, error |-> "ValueError", why |-> "target_methods"]
    ELSE LET tm == IF target_methods.some THEN target_methods.v ELSE m.methods IN
         IF ~validate_target_methods(m, tm)
         THEN [ok |-> FALSE, error |-> "ValueError", why |-> "target_methods"]
         ELSE IF sample_input.some
         THEN [ok |-> TRUE,
               signatures |-> [k \in tm |->
                   infer_signature(sample_input.v, Predict(m, k, sample_input.v))]]
         ELSE [ok |-> TRUE, signatures |-> [k \in tm |-> model_signatures(m)[k]]]

\* The signatures save establishes, or the reason it fails.
SaveOutcome(m, signatures, sample_input, target_methods) ==
    IF signatures.some /\ sample_input.some
    THEN [ok |-> FALSE, error |-> "ValueError", why |-> "both"]
    ELSE IF IsNone(signatures) /\ IsNone(sample_input) /\ ~can_infer(m)
    THEN [ok |-> FALSE, error |-> "ValueError", why |-> "neither"]
    ELSE IF signatures.some
    THEN IF validate_target_methods(m, DOMAIN signatures.v)
         THEN [ok |-> TRUE, signatures |-> signatures.v]
         ELSE [ok |-> FALSE, error |-> "ValueError", why |-> "target_methods"]
    ELSE LET tm == IF target_methods.some THEN target_methods.v ELSE m.methods IN
         IF ~validate_target_methods(m, tm)
         THEN [ok |-> FALSE, error |-> "ValueError", why |-> "target_methods"]
         ELSE IF sample_input.some
         THEN [ok |-> TRUE,
               signatures |-> [k \in tm |->
                   infer_signature(sample_input.v, Predict(m, k, sample_input.v))]]
         ELSE [ok |-> TRUE, signatures |-> [k \in tm |-> model_signatures(m)[k]]]

\* ModelPackager(dir).save(name, model, signatures, sample_input_data, metadata, options)
ModelPackager_save(dir, m, signatures, sample_input, metadata, target_methods) ==
    LET out == SaveOutcome(m, signatures, sample_input, target_methods)
        call == [op |-> "save", dir |-> dir, model |-> m, signatures |-> signatures,
                 sample_input |-> sample_input, metadata |-> metadata,
                 target_methods |-> target_methods]
    IN
    IF out.ok
    THEN LET meta == [name |-> dir, signatures |-> out.signatures,
                      metadata |-> metadata, model_type |-> m.kind] IN
         /\ pkDisk' = [pkDisk EXCEPT ![dir] =
                [present |-> TRUE, blob |-> Serialize(m), meta |-> meta,
                 artifacts |-> m.artifacts]]
         /\ pkSaved' = [pkSaved EXCEPT ![dir] = [call |-> call, meta |-> meta]]
         /\ pkLast' = [call |-> call, outcome |-> "ok", meta |-> meta]
    ELSE /\ pkLast' = [call |-> call, outcome |-> out.error, why |-> out.why]
         /\ UNCHANGED <<pkDisk, pkSaved>>

\* ModelPackager(dir).load(as_custom_model)
ModelPackager_load(dir, as_custom_model) ==
    LET call == [op |-> "load", dir |-> dir, as_custom_model |-> as_custom_model]
        pkg == pkDisk[dir]
    IN
    /\ pkg.present
    /\ LET m == Deserialize(pkg.blob, pkg.artifacts)
           \* the runtime proxy exposes only the declared inference methods
           model == IF as_custom_model
                    THEN [m EXCEPT !.methods = DOMAIN pkg.meta.signatures]
                    ELSE m
       IN pkLast' = [call |-> call, outcome |-> "ok", model |-> model, meta |-> pkg.meta]
    /\ UNCHANGED <<pkDisk, pkSaved>>

\* Explicit signature maps as the tests build them: infer_signature of a sample
\* and the model's prediction on it, under each name of a key set ("another_predict"
\* is given the signature of predict).
SignatureKeySets == {{"predict"}, {"predict_proba"}, {"predict", "predict_proba"},
                     {"predict", "another_predict"}}

ExplicitSignatures(m) ==
    {[k \in K |-> infer_signature(x, Predict(m, IF k \in m.methods THEN k ELSE "predict", x))] :
        K \in SignatureKeySets, x \in Samples}

TargetMethodOptions == {None, Some({"predict"}), Some({"random"})}

\* The (signatures, sample_input, target_methods) combinations a caller passes.
SaveArgs(m) ==
    {<<None, None, None>>}
    \cup {<<Some(s), None, None>> : s \in ExplicitSignatures(m)}
    \cup {<<None, Some(x), tm>> : x \in Samples, tm \in TargetMethodOptions}
    \cup {<<Some([k \in {"predict"} |-> infer_signature(x, Predict(m, "predict", x))]),
              Some(y), None>> : x \in Samples, y \in Samples}

PkSave ==
    /\ \E dir \in Dirs, m \in Models, metadata \in Metadatas :
       \E a \in SaveArgs(m) :
           ModelPackager_save(dir, m, a[1], a[2], metadata, a[3])
    /\ UNCHANGED <<runVars, expVars, loadVars, mtVars, fvVars, extVars>>

PkLoad ==
    /\ \E dir \in Dirs, as_custom_model \in BOOLEAN : ModelPackager_load(dir, as_custom_model)
    /\ UNCHANGED <<runVars, expVars, loadVars, mtVars, fvVars, extVars>>

InitPackager ==
    /\ pkDisk = [d \in Dirs |-> NoPkg]
    /\ pkSaved = [d \in Dirs |-> NoCall]
    /\ pkLast = NoCall

NextPackager == PkSave \/ PkLoad

(***************************************************************************)
(*                     MODEL VERSION HANDLE: run                           *)
(***************************************************************************)

\* Names a caller may pass as function_name or partition_column.
RawNames == {"predict", "PREDICT", "\"predict\"", "predict_proba", "explain", "bad name"}

\* Whether sql_identifier.SqlIdentifier accepts the name (otherwise its
\* constructor raises ValueError).
IsValidIdentifier(name) == name # "bad name"

\* sql_identifier.SqlIdentifier(name).identifier(): an unquoted name is folded
\* to upper case, a quoted name keeps its case and its quotes.
SqlIdentifier(name) ==
    CASE name = "predict" -> "PREDICT"
      [] name = "predict_proba" -> "PREDICT_PROBA"
      [] name = "explain" -> "EXPLAIN"
      [] name = "part" -> "PART"
      [] name = "model" -> "MODEL"
      [] name = "other" -> "OTHER"
      [] name = "v1" -> "V1"
      [] name = "v2" -> "V2"
      [] OTHER -> name

\* Functions the registry may report for a version (names are identifiers
\* already), and the lists of them a handle may hold.
FunctionNames == {"PREDICT", "\"predict\"", "PREDICT_PROBA"}
FunctionTypes == {"FUNCTION", "TABLE_FUNCTION"}
MaxFunctions == 2

ModelFunctionInfo(name, type) ==
    [name |-> name, target_method_function_type |-> type, signature |-> <<"sig", name>>]

FunctionInfos == {ModelFunctionInfo(n, t) : n \in FunctionNames, t \in FunctionTypes}

RECURSIVE FunctionLists(_)
FunctionLists(n) ==
    IF n = 0 THEN {<<>>}
    ELSE LET shorter == FunctionLists(n - 1) IN
         shorter \cup
         {Append(l, f) : l \in {x \in shorter : Len(x) = n - 1},
                         f \in FunctionInfos}

HasDistinctNames(l) == \A i, j \in DOMAIN l : l[i].name = l[j].name => i = j

\* ModelVersion._ref: the functions are fetched once, when the handle is made.
ModelVersion_ref(functions) == mvFunctions = functions

\* next(filter(find_method, functions), None): the index of the first function
\* with that name, 0 when there is none.
FindMethod(functions, req_method_name) ==
    LET hits == {i \in DOMAIN functions : functions[i].name = req_method_name} IN
    IF hits = {} THEN 0 ELSE CHOOSE i \in hits : \A j \in hits : i <= j

Truthy(function_name) == function_name.some /\ function_name.v # ""

\* Mutant of RunOutcome: without a function name, only an empty function list
\* is refused; otherwise the first function is taken.
RunOutcome_FirstOfMany(functions, function_name, partition_column) ==
    IF partition_column.some /\ ~IsValidIdentifier(partition_column.v)
    THEN [ok |-> FALSE, error |-> "ValueError", why |-> "invalid partition column"]
    ELSE IF Truthy(function_name)
    THEN IF ~IsValidIdentifier(function_name.v)
         THEN [ok |-> FALSE, error |-> "ValueError", why |-> "invalid identifier"]
         ELSE LET i == FindMethod(functions, SqlIdentifier(function_name.v)) IN
              IF i = 0
              THEN [ok |-> FALSE, error |-> "ValueError", why |-> "no method with name"]
              ELSE [ok |-> TRUE, target |-> functions[i]]
    ELSE IF Len(functions) = 0
    THEN [ok |-> FALSE, error |-> "ValueError", why |-> "more than 1 target methods"]
    ELSE [ok |-> TRUE, target |-> functions[1]]

\* Mutant of RunOutcome: a name that matches no function falls back to the
\* only function of the version.
RunOutcome_FallBack(functions, function_name, partition_column) ==
    IF partition_column.some /\ ~IsValidIdentifier(partition_column.v)
    THEN [ok |-> FALSE, error |-> "ValueError", why |-> "invalid partition column"]
    ELSE IF Truthy(function_name) /\ ~IsValidIdentifier(function_name.v)
    THEN [ok |-> FALSE, error |-> "ValueError", why |-> "invalid identifier"]
    ELSE IF Truthy(function_name)
            /\ FindMethod(functions, SqlIdentifier(function_name.v)) # 0
    THEN [ok |-> TRUE,
          target |-> functions[FindMethod(functions, SqlIdentifier(function_name.v))]]
    ELSE IF Len(functions) # 1
    THEN [ok |-> FALSE, error |-> "ValueError",
          why |-> IF Truthy(function_name) THEN "no method with name"
                  ELSE "more than 1 target methods"]
    ELSE [ok |-> TRUE, target |-> functions[1]]

\* What run does with the functions it holds: the error it raises, or the
\* function it hands to invoke_method.
RunOutcome(functions, function_name, partition_column) ==
    IF partition_column.some /\ ~IsValidIdentifier(partition_column.v)
    THEN [ok |-> FALSE, error |-> "ValueError", why |-> "invalid partition column"]
    ELSE IF Truthy(function_name)
    THEN IF ~IsValidIdentifier(function_name.v)
         THEN [ok |-> FALSE, error |-> "ValueError", why |-> "invalid identifier"]
         ELSE LET i == FindMethod(functions, SqlIdentifier(function_name.v)) IN
              IF i = 0
              THEN [ok |-> FALSE, error |-> "ValueError", why |-> "no method with name"]
              ELSE [ok |-> TRUE, target |-> functions[i]]
    ELSE IF Len(functions) # 1
    THEN [ok |-> FALSE, error |-> "ValueError", why |-> "more than 1 target methods"]
    ELSE [ok |-> TRUE, target |-> functions[1]]

\* Mutant of ModelVersion_run: run asks the registry for the functions again
\* and keeps what it gets, here a list without its first function.
ModelVersion_run_Refetch(function_name, partition_column, strict_input_validation) ==
    LET out == RunOutcome(mvFunctions, function_name, partition_column)
        call == [function_name |-> function_name, partition_column |-> partition_column,
                 strict_input_validation |-> strict_input_validation]
    IN
    /\ mvRun' =
          IF out.ok
          THEN [op |-> "run", call |-> call, outcome |-> "ok", why |-> "",
                invoke_method |->
                  <<[method_name |-> SqlIdentifier(out.target.name),
                     method_function_type |-> out.target.target_method_function_type,
                     signature |-> out.target.signature,
                     partition_column |->
                        IF partition_column.some
                        THEN Some(SqlIdentifier(partition_column.v)) ELSE None,
                     strict_input_validation |-> strict_input_validation]>>]
          ELSE [op |-> "run", call |-> call, outcome |-> out.error, why |-> out.why,
                invoke_method |-> <<>>]
    /\ mvFunctions' = IF mvFunctions = <<>> THEN <<>> ELSE Tail(mvFunctions)

\* ModelVersion.run(X, function_name, partition_column, strict_input_validation)
ModelVersion_run(function_name, partition_column, strict_input_validation) ==
    LET out == RunOutcome(mvFunctions, function_name, partition_column)
        call == [function_name |-> function_name, partition_column |-> partition_column,
                 strict_input_validation |-> strict_input_validation]
    IN
    /\ mvRun' =
          IF out.ok
          THEN [op |-> "run", call |-> call, outcome |-> "ok", why |-> "",
                invoke_method |->
                  <<[method_name |-> SqlIdentifier(out.target.name),
                     method_function_type |-> out.target.target_method_function_type,
                     signature |-> out.target.signature,
                     partition_column |->
                        IF partition_column.some
                        THEN Some(SqlIdentifier(partition_column.v)) ELSE None,
                     strict_input_validation |-> strict_input_validation]>>]
          ELSE [op |-> "run", call |-> call, outcome |-> out.error, why |-> out.why,
                invoke_method |-> <<>>]
    /\ UNCHANGED mvFunctions

NoRun == [op |-> "none", call |-> None, outcome |-> "none", why |-> "", invoke_method |-> <<>>]

Run ==
    /\ \E function_name \in {None, Some("")} \cup {Some(n) : n \in RawNames},
          partition_column \in {None, Some("part"), Some("bad name")},
          strict_input_validation \in BOOLEAN :
          ModelVersion_run(function_name, partition_column, strict_input_validation)
    /\ UNCHANGED <<pkVars, expVars, loadVars, mtVars, fvVars, extVars>>

InitRun ==
    /\ \E functions \in {l \in FunctionLists(MaxFunctions) : HasDistinctNames(l)} :
          ModelVersion_ref(functions)
    /\ mvRun = NoRun

IdleRun ==
    /\ mvFunctions = <<>>
    /\ mvRun = NoRun

NextRun == Run

(***************************************************************************)
(*                    MODEL VERSION HANDLE: export                         *)
(***************************************************************************)

Paths == {"target", "other"}

Absent == [kind |-> "absent", entries |-> {}]
RegularFile == [kind |-> "file", entries |-> {}]
Directory(entries) == [kind |-> "dir", entries |-> entries]

\* pathlib.Path.is_file()
is_file(p) == fs[p].kind = "file"

\* What any(path.iterdir()) does: FileNotFoundError for a path that does not
\* exist, else whether the directory has an entry. (Not reached for a file.)
iterdir_any(p) ==
    IF fs[p].kind = "absent" THEN [raised |-> TRUE, error |-> "FileNotFoundError", any |-> FALSE]
    ELSE IF fs[p].kind = "file" THEN [raised |-> TRUE, error |-> "NotADirectoryError", any |-> FALSE]
    ELSE [raised |-> FALSE, error |-> "", any |-> fs[p].entries # {}]

\* ExportMode values.
ExportModes == {"model", "full"}

\* The files model_ops.download_files puts into the target for a mode.
DownloadedFiles(mode) ==
    CASE mode = "minimal" -> {"model/model.yaml", "model/env"}
      [] mode = "model" -> {"model"}
      [] mode = "full" -> {"model", "MANIFEST.yml", "runtimes"}

\* Mutant of ExportOutcome: only a regular file is refused; the entries of a
\* directory are not looked at.
ExportOutcome_NoEmptyCheck(target_path) ==
    IF is_file(target_path)
    THEN [ok |-> FALSE, error |-> "ValueError"]
    ELSE LET it == iterdir_any(target_path) IN
         IF it.raised THEN [ok |-> FALSE, error |-> it.error]
         ELSE [ok |-> TRUE, error |-> ""]

\* What export does: the error it raises, or the download it makes.
ExportOutcome(target_path) ==
    IF is_file(target_path)
    THEN [ok |-> FALSE, error |-> "ValueError"]
    ELSE LET it == iterdir_any(target_path) IN
         IF it.raised THEN [ok |-> FALSE, error |-> it.error]
         ELSE IF it.any THEN [ok |-> FALSE, error |-> "ValueError"]
         ELSE [ok |-> TRUE, error |-> ""]

\* ModelVersion.export(target_path, export_mode)
ModelVersion_export(target_path, export_mode) ==
    LET out == ExportOutcome(target_path)
        call == [target_path |-> target_path, export_mode |-> export_mode]
    IN
    IF out.ok
    THEN \* mkdir(parents=False, exist_ok=True) on the existing empty directory,
         \* then download_files into it
         /\ fs' = [fs EXCEPT ![target_path] =
                      Directory(fs[target_path].entries \cup DownloadedFiles(export_mode))]
         /\ mvExport' = [op |-> "export", call |-> Some(call), outcome |-> "ok",
                         download_files |-> <<[target_path |-> target_path,
                                               mode |-> export_mode]>>]
    ELSE /\ mvExport' = [op |-> "export", call |-> Some(call), outcome |-> out.error,
                         download_files |-> <<>>]
         /\ UNCHANGED fs

NoExport == [op |-> "none", call |-> None, outcome |-> "none", download_files |-> <<>>]

Export ==
    /\ \E target_path \in Paths, export_mode \in ExportModes :
          ModelVersion_export(target_path, export_mode)
    /\ UNCHANGED <<pkVars, runVars, loadVars, mtVars, fvVars, extVars>>

InitialEntries == {Absent, RegularFile, Directory({}), Directory({"old.txt"})}

InitExport ==
    /\ fs \in [Paths -> InitialEntries]
    /\ mvExport = NoExport

IdleExport ==
    /\ fs = [p \in Paths |-> Absent]
    /\ mvExport = NoExport

NextExport == Export

(***************************************************************************)
(*                     MODEL VERSION HANDLE: load                          *)
(***************************************************************************)

PythonVersions == {"3.8", "3.9"}
PackageVersions == {"1.0", "1.1"}
NotInstalled == "not installed"
HandlerTypes == {"snowml", "sklearn"}

\* The environment recorded in the model's metadata at save time.
RecordedEnvs ==
    [python_version : PythonVersions, package : PackageVersions,
     snowpark_ml_version : PackageVersions]
\* The environment of the process calling load.
LocalEnvs ==
    [python_version : PythonVersions, package : PackageVersions \cup {NotInstalled},
     snowpark_ml_version : PackageVersions]

\* pk.meta.env.validate_with_local_env(check_snowpark_ml_version): the list of
\* discrepancies between the recorded environment and the local one.
validate_with_local_env(recorded, local, check_snowpark_ml_version) ==
    (IF recorded.python_version # local.python_version
     THEN <<"python_version">> ELSE <<>>)
    \o (IF recorded.package # local.package THEN <<"package">> ELSE <<>>)
    \o (IF check_snowpark_ml_version
           /\ recorded.snowpark_ml_version # local.snowpark_ml_version
        THEN <<"snowpark_ml_version">> ELSE <<>>)

\* ModelComposer.load(workspace, meta_only): the packager of workspace/model,
\* with its metadata and, unless meta_only, the model object.
ModelComposer_load(workspace, meta_only) ==
    [step |-> "ModelComposer.load", workspace |-> workspace, mode |-> "",
     meta_only |-> meta_only]

DownloadFiles(workspace, mode) ==
    [step |-> "download_files", workspace |-> workspace, mode |-> mode, meta_only |-> FALSE]
Mkdtemp(workspace) ==
    [step |-> "mkdtemp", workspace |-> workspace, mode |-> "", meta_only |-> FALSE]
Cleanup(workspace) ==
    [step |-> "cleanup", workspace |-> workspace, mode |-> "", meta_only |-> FALSE]
Validate ==
    [step |-> "validate_with_local_env", workspace |-> "", mode |-> "", meta_only |-> FALSE]

\* Mutant of ValidationSteps: the validation workspace is made with mkdtemp and
\* never removed.
ValidationSteps_NoCleanup ==
    <<Mkdtemp("tmp_workspace_for_validation"),
      DownloadFiles("tmp_workspace_for_validation", "minimal"),
      ModelComposer_load("tmp_workspace_for_validation", TRUE),
      Validate>>

\* The validation block of load (force=False): a temporary workspace that is
\* removed when the block is left, also by an exception.
ValidationSteps ==
    <<Mkdtemp("tmp_workspace_for_validation"),
      DownloadFiles("tmp_workspace_for_validation", "minimal"),
      ModelComposer_load("tmp_workspace_for_validation", TRUE),
      Validate,
      Cleanup("tmp_workspace_for_validation")>>

LoadSteps ==
    <<Mkdtemp("workspace"),
      DownloadFiles("workspace", "model"),
      ModelComposer_load("workspace", FALSE)>>

\* Mutant of ModelVersion_load: the validation errors are computed and then
\* ignored.
ModelVersion_load_IgnoreErrors(force) ==
    /\ mvLoad' = [op |-> "load", force |-> force, outcome |-> "ok",
                  validation_errors |-> <<>>,
                  steps |-> (IF force THEN <<>> ELSE ValidationSteps) \o LoadSteps,
                  model |-> Some(mvEnv.model_type)]
    /\ UNCHANGED mvEnv

\* ModelVersion.load(force, options)
ModelVersion_load(force) ==
    LET validation_errors ==
            validate_with_local_env(mvEnv.recorded, mvEnv.local,
                                    mvEnv.model_type = "snowml")
    IN
    /\ mvLoad' =
          IF ~force /\ validation_errors # <<>>
          THEN [op |-> "load", force |-> force, outcome |-> "ValueError",
                validation_errors |-> validation_errors,
                steps |-> ValidationSteps, model |-> None]
          ELSE [op |-> "load", force |-> force, outcome |-> "ok",
                validation_errors |-> <<>>,
                steps |-> (IF force THEN <<>> ELSE ValidationSteps) \o LoadSteps,
                model |-> Some(mvEnv.model_type)]
    /\ UNCHANGED mvEnv

NoLoad == [op |-> "none", force |-> FALSE, outcome |-> "none", validation_errors |-> <<>>,
           steps |-> <<>>, model |-> None]

Load ==
    /\ \E force \in BOOLEAN : ModelVersion_load(force)
    /\ UNCHANGED <<pkVars, runVars, expVars, mtVars, fvVars, extVars>>

InitLoad ==
    /\ mvEnv \in [recorded : RecordedEnvs, local : LocalEnvs, model_type : HandlerTypes]
    /\ mvLoad = NoLoad

IdleLoad ==
    /\ mvEnv = [recorded |-> [python_version |-> "3.8", package |-> "1.0",
                              snowpark_ml_version |-> "1.0"],
                local |-> [python_version |-> "3.8", package |-> "1.0",
                           snowpark_ml_version |-> "1.0"],
                model_type |-> "sklearn"]
    /\ mvLoad = NoLoad

NextLoad == Load

(***************************************************************************)
(*                 MODEL VERSION HANDLE: metrics                           *)
(* The metric map lives in the version's remote metadata. Every metric     *)
(* operation loads the whole map (show_metrics); set_metric and            *)
(* delete_metric then change their copy and save the whole map back. The   *)
(* two remote calls of one operation are separate steps, so that callers   *)
(* sharing a version interleave between them.                              *)
(***************************************************************************)

Callers == {1, 2}
MetricNames == {"a", "b"}
MetricValues == {1, 2}
\* Cap on the number of metadata saves in a run.
MaxSaves == 2

EmptyMetrics == [k \in {} |-> 0]

\* Mutant of DictSet: the assignment keeps only the assigned key.
DictSet_DropOthers(metrics, metric_name, value) ==
    [k \in {metric_name} |-> value]

\* metrics[metric_name] = value
DictSet(metrics, metric_name, value) ==
    [k \in DOMAIN metrics \cup {metric_name} |->
        IF k = metric_name THEN value ELSE metrics[k]]

\* del metrics[metric_name]
DictDel(metrics, metric_name) ==
    [k \in DOMAIN metrics \ {metric_name} |-> metrics[k]]

\* ModelVersion.show_metrics: metadata_ops.load(...)["metrics"]
show_metrics == mtStore

\* metadata_ops.save(ModelVersionMetadataSchema(metrics=metrics)): the whole
\* map replaces the stored one.
metadata_ops_save(metrics) ==
    /\ mtStore' = metrics
    /\ mtSaves' = mtSaves + 1

IdleCaller == [pc |-> "idle", op |-> "none", name |-> "", value |-> 0,
               metrics |-> EmptyMetrics, read_at |-> 0]
NoResult == [op |-> "none", name |-> "", value |-> 0, outcome |-> "none",
             returned |-> 0, read_keys |-> {}, read_at |-> 0, saved_at |-> 0]

\* set_metric, up to its save: metrics = self.show_metrics(); metrics[name] = value
set_metric_load(c, metric_name, value) ==
    /\ mtCaller[c].pc = "idle"
    /\ mtCaller' = [mtCaller EXCEPT ![c] =
          [pc |-> "save", op |-> "set_metric", name |-> metric_name, value |-> value,
           metrics |-> show_metrics, read_at |-> mtSaves]]
    /\ UNCHANGED <<mtStore, mtSaves, mtDone>>

\* Mutant of set_metric_save: the save merges the metric into the map as it
\* is stored now (an atomic read-modify-write).
set_metric_save_Merge(c) ==
    /\ mtCaller[c].pc = "save" /\ mtCaller[c].op = "set_metric"
    /\ mtSaves < MaxSaves
    /\ metadata_ops_save(DictSet(mtStore, mtCaller[c].name, mtCaller[c].value))
    /\ mtDone' = [mtDone EXCEPT ![c] =
          [op |-> "set_metric", name |-> mtCaller[c].name, value |-> mtCaller[c].value,
           outcome |-> "ok", returned |-> 0,
           read_keys |-> DOMAIN mtCaller[c].metrics,
           read_at |-> mtCaller[c].read_at, saved_at |-> mtSaves + 1]]
    /\ mtCaller' = [mtCaller EXCEPT ![c] = IdleCaller]

\* set_metric, its save
set_metric_save(c) ==
    /\ mtCaller[c].pc = "save" /\ mtCaller[c].op = "set_metric"
    /\ mtSaves < MaxSaves
    /\ metadata_ops_save(DictSet(mtCaller[c].metrics, mtCaller[c].name, mtCaller[c].value))
    /\ mtDone' = [mtDone EXCEPT ![c] =
          [op |-> "set_metric", name |-> mtCaller[c].name, value |-> mtCaller[c].value,
           outcome |-> "ok", returned |-> 0,
           read_keys |-> DOMAIN mtCaller[c].metrics,
           read_at |-> mtCaller[c].read_at, saved_at |-> mtSaves + 1]]
    /\ mtCaller' = [mtCaller EXCEPT ![c] = IdleCaller]

\* Mutant of delete_metric_load: no membership test, the call always goes on
\* to its save.
delete_metric_load_NoCheck(c, metric_name) ==
    /\ mtCaller[c].pc = "idle"
    /\ mtCaller' = [mtCaller EXCEPT ![c] =
          [pc |-> "save", op |-> "delete_metric", name |-> metric_name,
           value |-> 0, metrics |-> show_metrics, read_at |-> mtSaves]]
    /\ UNCHANGED <<mtStore, mtSaves, mtDone>>

\* delete_metric, up to its save: KeyError (and no save) for a name that is
\* not in the map it loaded
delete_metric_load(c, metric_name) ==
    /\ mtCaller[c].pc = "idle"
    /\ LET metrics == show_metrics IN
       IF metric_name \notin DOMAIN metrics
       THEN /\ mtDone' = [mtDone EXCEPT ![c] =
                  [op |-> "delete_metric", name |-> metric_name, value |-> 0,
                   outcome |-> "KeyError", returned |-> 0,
                   read_keys |-> DOMAIN metrics, read_at |-> mtSaves, saved_at |-> 0]]
            /\ UNCHANGED mtCaller
       ELSE /\ mtCaller' = [mtCaller EXCEPT ![c] =
                  [pc |-> "save", op |-> "delete_metric", name |-> metric_name,
                   value |-> 0, metrics |-> metrics, read_at |-> mtSaves]]
            /\ UNCHANGED mtDone
    /\ UNCHANGED <<mtStore, mtSaves>>

\* delete_metric, its save
delete_metric_save(c) ==
    /\ mtCaller[c].pc = "save" /\ mtCaller[c].op = "delete_metric"
    /\ mtSaves < MaxSaves
    /\ metadata_ops_save(DictDel(mtCaller[c].metrics, mtCaller[c].name))
    /\ mtDone' = [mtDone EXCEPT ![c] =
          [op |-> "delete_metric", name |-> mtCaller[c].name, value |-> 0,
           outcome |-> "ok", returned |-> 0,
           read_keys |-> DOMAIN mtCaller[c].metrics,
           read_at |-> mtCaller[c].read_at, saved_at |-> mtSaves + 1]]
    /\ mtCaller' = [mtCaller EXCEPT ![c] = IdleCaller]

\* get_metric: one load, then the value or KeyError
get_metric(c, metric_name) ==
    /\ mtCaller[c].pc = "idle"
    /\ LET metrics == show_metrics IN
       mtDone' = [mtDone EXCEPT ![c] =
          [op |-> "get_metric", name |-> metric_name, value |-> 0,
           outcome |-> IF metric_name \in DOMAIN metrics THEN "ok" ELSE "KeyError",
           returned |-> IF metric_name \in DOMAIN metrics THEN metrics[metric_name] ELSE 0,
           read_keys |-> DOMAIN metrics, read_at |-> mtSaves, saved_at |-> 0]]
    /\ UNCHANGED <<mtStore, mtSaves, mtCaller>>

SetMetricLoad ==
    /\ \E c \in Callers, k \in MetricNames, v \in MetricValues : set_metric_load(c, k, v)
    /\ UNCHANGED <<pkVars, runVars, expVars, loadVars, fvVars, extVars>>
SetMetricSave ==
    /\ \E c \in Callers : set_metric_save(c)
    /\ UNCHANGED <<pkVars, runVars, expVars, loadVars, fvVars, extVars>>
DeleteMetricLoad ==
    /\ \E c \in Callers, k \in MetricNames : delete_metric_load(c, k)
    /\ UNCHANGED <<pkVars, runVars, expVars, loadVars, fvVars, extVars>>
DeleteMetricSave ==
    /\ \E c \in Callers : delete_metric_save(c)
    /\ UNCHANGED <<pkVars, runVars, expVars, loadVars, fvVars, extVars>>
GetMetric ==
    /\ \E c \in Callers, k \in MetricNames : get_metric(c, k)
    /\ UNCHANGED <<pkVars, runVars, expVars, loadVars, fvVars, extVars>>

InitMetrics ==
    /\ mtStore = EmptyMetrics
    /\ mtSaves = 0
    /\ mtCaller = [c \in Callers |-> IdleCaller]
    /\ mtDone = [c \in Callers |-> NoResult]

NextMetrics ==
    SetMetricLoad \/ SetMetricSave \/ DeleteMetricLoad \/ DeleteMetricSave \/ GetMetric

\* The same operations with one caller only: a call's load and save follow
\* each other with no other caller's step in between.
SingleCaller == 1
SingleSetMetricLoad ==
    /\ \E k \in MetricNames, v \in MetricValues : set_metric_load(SingleCaller, k, v)
    /\ UNCHANGED <<pkVars, runVars, expVars, loadVars, fvVars, extVars>>
SingleSetMetricSave ==
    /\ set_metric_save(SingleCaller)
    /\ UNCHANGED <<pkVars, runVars, expVars, loadVars, fvVars, extVars>>
SingleDeleteMetricLoad ==
    /\ \E k \in MetricNames : delete_metric_load(SingleCaller, k)
    /\ UNCHANGED <<pkVars, runVars, expVars, loadVars, fvVars, extVars>>
SingleDeleteMetricSave ==
    /\ delete_metric_save(SingleCaller)
    /\ UNCHANGED <<pkVars, runVars, expVars, loadVars, fvVars, extVars>>
SingleGetMetric ==
    /\ \E k \in MetricNames : get_metric(SingleCaller, k)
    /\ UNCHANGED <<pkVars, runVars, expVars, loadVars, fvVars, extVars>>

\* Metric maps a version can hold when the handle is obtained (log_model
\* writes the metrics it is given).
MetricMaps ==
    UNION {[names -> MetricValues] : names \in SUBSET MetricNames}

InitMetricsSingle ==
    /\ mtStore \in MetricMaps
    /\ mtSaves = 0
    /\ mtCaller = [c \in Callers |-> IdleCaller]
    /\ mtDone = [c \in Callers |-> NoResult]

NextMetricsSingle ==
    \/ SingleSetMetricLoad \/ SingleSetMetricSave
    \/ SingleDeleteMetricLoad \/ SingleDeleteMetricSave
    \/ SingleGetMetric

(***************************************************************************)
(*                           FEATURE VIEW                                  *)
(***************************************************************************)

FEATURE_VIEW_NAME_DELIMITER == "$"
TIMESTAMP_COL_PLACEHOLDER == "FS_TIMESTAMP_COL_PLACEHOLDER_VAL"

\* FeatureViewStatus members, and Python strings, as values of the _status
\* field: a member and a string are never equal.
EnumStatus(v) == [enum |-> TRUE, v |-> v]
StrValue(v) == [enum |-> FALSE, v |-> v]
FeatureViewStatus_DRAFT == EnumStatus("DRAFT")
MaterializedStatuses == {EnumStatus("STATIC"), EnumStatus("RUNNING"), EnumStatus("SUSPENDED")}

\* str(x): "FeatureViewStatus.<NAME>" for a member, the string for a string.
Str(x) ==
    IF ~x.enum THEN x
    ELSE CASE x.v = "DRAFT" -> StrValue("FeatureViewStatus.DRAFT")
           [] x.v = "STATIC" -> StrValue("FeatureViewStatus.STATIC")
           [] x.v = "RUNNING" -> StrValue("FeatureViewStatus.RUNNING")
           [] x.v = "SUSPENDED" -> StrValue("FeatureViewStatus.SUSPENDED")

\* identifier.get_unescaped_names of one name: a quoted name loses its quotes,
\* an unquoted one is folded to upper case.
get_unescaped_name(name) ==
    CASE name = "uid" -> "UID"
      [] name = "ts" -> "TS"
      [] name = "f1" -> "F1"
      [] name = "f2" -> "F2"
      [] name = "nosuch" -> "NOSUCH"
      [] name = "fv" -> "FV"
      [] name = "\"f2\"" -> "f2"
      [] OTHER -> name

get_unescaped_names(names) == [i \in DOMAIN names |-> get_unescaped_name(names[i])]

SeqToSet(q) == {q[i] : i \in DOMAIN q}

\* Entity objects (entity.py); the ones used here pass Entity._validate.
Entity(name, join_keys, desc) == [name |-> name, join_keys |-> join_keys, desc |-> desc]
Entities == {Entity("user", <<"uid">>, "")}

\* Snowpark dataframes: their queries, columns and column types.
DataFrame(queries, columns, ts_type) ==
    [queries |-> queries, columns |-> columns, ts_type |-> ts_type]
DataFrames ==
    {DataFrame(<<"SELECT A">>, <<"UID", "TS", "F1">>, "TimestampType"),
     DataFrame(<<"SELECT B">>, <<"UID", "F1", "\"f2\"">>, "none"),
     DataFrame(<<"SELECT C">>, <<"UID", "TS", "F1">>, "StringType"),
     DataFrame(<<"SELECT D1", "SELECT D2">>, <<"UID", "F1">>, "none"),
     DataFrame(<<"SELECT E">>, <<"F1">>, "none")}

\* session.sql(query): the dataframe of that single query.
session_sql(query) == CHOOSE df \in DataFrames : df.queries = <<query>>

ValidTimestampTypes == {"DateType", "TimeType", "TimestampType", "NumericType"}

\* FeatureView._get_feature_names: the columns that are neither join keys nor
\* the timestamp column, in column order.
RECURSIVE FilterOut(_, _)
FilterOut(q, drop) ==
    IF q = <<>> THEN <<>>
    ELSE IF Head(q) \in drop THEN FilterOut(Tail(q), drop)
    ELSE <<Head(q)>> \o FilterOut(Tail(q), drop)

RECURSIVE JoinKeysOf(_)
JoinKeysOf(entities) ==
    IF entities = <<>> THEN {}
    ELSE SeqToSet(get_unescaped_names(Head(entities).join_keys)) \cup JoinKeysOf(Tail(entities))

get_feature_names(entities, feature_df, timestamp_col) ==
    LET join_keys == JoinKeysOf(entities)
        ts_col == IF timestamp_col.some THEN {get_unescaped_name(timestamp_col.v)} ELSE {}
    IN FilterOut(get_unescaped_names(feature_df.columns), join_keys \cup ts_col)

\* FeatureView._get_query and FeatureView._validate: whether the constructor
\* raises ValueError.
ConstructorRaises(name, entities, feature_df, timestamp_col) ==
    \/ Len(feature_df.queries) # 1
    \/ name = "f$v"
    \/ ~(JoinKeysOf(entities) \subseteq SeqToSet(get_unescaped_names(feature_df.columns)))
    \/ /\ timestamp_col.some
       /\ LET ts_col == get_unescaped_name(timestamp_col.v) IN
          \/ ts_col = TIMESTAMP_COL_PLACEHOLDER
          \/ ts_col \notin SeqToSet(get_unescaped_names(feature_df.columns))
          \/ feature_df.ts_type \notin ValidTimestampTypes

\* FeatureView.__init__ (when it does not raise)
FeatureView(name, entities, feature_df, timestamp_col, desc) ==
    LET names == get_feature_names(entities, feature_df, timestamp_col) IN
    [name |-> name, entities |-> entities, feature_df |-> feature_df,
     timestamp_col |-> timestamp_col, desc |-> desc,
     query |-> feature_df.queries[1], version |-> None,
     status |-> FeatureViewStatus_DRAFT,
     feature_desc |-> [i \in DOMAIN names |-> [name |-> names[i], desc |-> None]],
     refresh_freq |-> None, database |-> None, schema |-> None, warehouse |-> None]

HasFeature(feature_desc, f) == \E i \in DOMAIN feature_desc : feature_desc[i].name = f

\* FeatureView.attach_feature_desc: the descriptions are set one by one, in the
\* order of descs, until a name is not a feature of the view.
RECURSIVE attach_feature_desc(_, _)
attach_feature_desc(feature_desc, descs) ==
    IF descs = <<>> THEN [raised |-> FALSE, feature_desc |-> feature_desc]
    ELSE LET f == get_unescaped_name(Head(descs).name) IN
         IF ~HasFeature(feature_desc, f)
         THEN [raised |-> TRUE, feature_desc |-> feature_desc]
         ELSE attach_feature_desc(
                 [i \in DOMAIN feature_desc |->
                     IF feature_desc[i].name = f
                     THEN [name |-> f, desc |-> Head(descs).desc]
                     ELSE feature_desc[i]],
                 Tail(descs))

\* FeatureView._construct_feature_view: [raised, fv]
construct_feature_view(name, entities, feature_df, timestamp_col, desc, version, status, feature_descs, refresh_freq, database, schema, warehouse) ==
    IF ConstructorRaises(name, entities, feature_df, timestamp_col)
    THEN [raised |-> TRUE]
    ELSE LET fv == FeatureView(name, entities, feature_df, timestamp_col, desc)
             att == attach_feature_desc(fv.feature_desc, feature_descs)
         IN
         IF att.raised THEN [raised |-> TRUE]
         ELSE [raised |-> FALSE,
               fv |-> [fv EXCEPT !.version = version, !.status = status,
                                 !.refresh_freq = refresh_freq, !.database = database,
                                 !.schema = schema, !.warehouse = warehouse,
                                 !.feature_desc = att.feature_desc]]

\* FeatureView.to_json: the object's fields without _feature_df, the entities
\* as dictionaries, the status as str(status).
to_json(fv) ==
    [FEATURE_OBJ_TYPE |-> "FeatureView",
     name |-> fv.name, entities |-> fv.entities, timestamp_col |-> fv.timestamp_col,
     desc |-> fv.desc, query |-> fv.query, version |-> fv.version,
     status |-> Str(fv.status), feature_desc |-> fv.feature_desc,
     refresh_freq |-> fv.refresh_freq, database |-> fv.database,
     schema |-> fv.schema, warehouse |-> fv.warehouse]

\* FeatureView.from_json: [raised, fv]
from_json(json_dict) ==
    IF json_dict.FEATURE_OBJ_TYPE # "FeatureView" THEN [raised |-> TRUE]
    ELSE construct_feature_view(
            json_dict.name,
            [i \in DOMAIN json_dict.entities |->
                Entity(json_dict.entities[i].name, json_dict.entities[i].join_keys,
                       json_dict.entities[i].desc)],
            session_sql(json_dict.query),
            json_dict.timestamp_col, json_dict.desc, json_dict.version,
            json_dict.status, json_dict.feature_desc, json_dict.refresh_freq,
            json_dict.database, json_dict.schema, json_dict.warehouse)

\* get_unescaped_names of an optional name: None stays None.
get_unescaped_optional(name) ==
    IF name.some THEN Some(get_unescaped_name(name.v)) ELSE None

\* Entity.__eq__
Entity_eq(a, b) ==
    /\ get_unescaped_name(a.name) = get_unescaped_name(b.name)
    /\ a.desc = b.desc
    /\ a.join_keys = b.join_keys

\* FeatureView.__eq__: feature_descs are compared as dictionaries,
\* feature_names as lists, the statuses by their str().
FeatureView_eq(a, b) ==
    /\ get_unescaped_name(a.name) = get_unescaped_name(b.name)
    /\ get_unescaped_optional(a.version) = get_unescaped_optional(b.version)
    /\ get_unescaped_optional(a.timestamp_col) = get_unescaped_optional(b.timestamp_col)
    /\ Len(a.entities) = Len(b.entities)
    /\ \A i \in DOMAIN a.entities : Entity_eq(a.entities[i], b.entities[i])
    /\ a.desc = b.desc
    /\ SeqToSet(a.feature_desc) = SeqToSet(b.feature_desc)
    /\ [i \in DOMAIN a.feature_desc |-> a.feature_desc[i].name]
          = [i \in DOMAIN b.feature_desc |-> b.feature_desc[i].name]
    /\ a.query = b.query
    /\ a.refresh_freq = b.refresh_freq
    /\ Str(a.status) = Str(b.status)
    /\ a.warehouse = b.warehouse

\* FeatureView.fully_qualified_name: [outcome, returned]
fully_qualified_name(fv) ==
    IF fv.status = FeatureViewStatus_DRAFT
    THEN [outcome |-> "RuntimeError", returned |-> <<>>]
    ELSE [outcome |-> "ok",
          returned |-> <<fv.database, fv.schema, fv.name, FEATURE_VIEW_NAME_DELIMITER,
                         fv.version>>]

NoFv == [exists |-> FALSE]
NoJson == [exists |-> FALSE]
FvResult(op, outcome, returned) == [op |-> op, outcome |-> outcome, returned |-> returned]

\* fv = FeatureView(name, entities, feature_df, timestamp_col, desc)
FvConstruct ==
    /\ \E name \in {"fv", "f$v"}, e \in Entities, feature_df \in DataFrames,
          timestamp_col \in {None, Some("ts")} :
          IF ConstructorRaises(name, <<e>>, feature_df, timestamp_col)
          THEN /\ fvLast' = FvResult("FeatureView", "ValueError", <<>>)
               /\ UNCHANGED <<fvObj, fvBuiltBy>>
          ELSE /\ fvObj' = [exists |-> TRUE,
                            fv |-> FeatureView(name, <<e>>, feature_df, timestamp_col, "")]
               /\ fvBuiltBy' = "constructor"
               /\ fvLast' = FvResult("FeatureView", "ok", <<>>)
    /\ UNCHANGED fvJson
    /\ UNCHANGED nonFvVars

\* The feature store registers a draft view: it rebuilds it with
\* _construct_feature_view under a version, a materialized status and its
\* location.
FvRegister ==
    /\ fvObj.exists
    /\ fvObj.fv.status = FeatureViewStatus_DRAFT
    /\ \E status \in MaterializedStatuses :
          LET old == fvObj.fv
              r == construct_feature_view(old.name, old.entities, old.feature_df,
                       old.timestamp_col, old.desc, Some("v1"), status,
                       old.feature_desc, None, Some("DB"), Some("SCH"), Some("WH"))
          IN
          /\ ~r.raised
          /\ fvObj' = [exists |-> TRUE, fv |-> r.fv]
    /\ fvBuiltBy' = "register"
    /\ fvLast' = FvResult("register", "ok", <<>>)
    /\ UNCHANGED fvJson
    /\ UNCHANGED nonFvVars

DescArgs ==
    {<<[name |-> "f1", desc |-> Some("d1")]>>,
     <<[name |-> "f1", desc |-> Some("d2")], [name |-> "nosuch", desc |-> Some("x")]>>,
     <<[name |-> "nosuch", desc |-> Some("x")]>>}

\* fv.attach_feature_desc(descs)
FvAttach ==
    /\ fvObj.exists
    /\ \E descs \in DescArgs :
          LET att == attach_feature_desc(fvObj.fv.feature_desc, descs) IN
          /\ fvObj' = [fvObj EXCEPT !.fv.feature_desc = att.feature_desc]
          /\ fvLast' = FvResult("attach_feature_desc",
                                IF att.raised THEN "ValueError" ELSE "ok", <<>>)
    /\ UNCHANGED <<fvJson, fvBuiltBy>>
    /\ UNCHANGED nonFvVars

\* json_str = fv.to_json()
FvToJson ==
    /\ fvObj.exists
    /\ fvJson' = [exists |-> TRUE, doc |-> to_json(fvObj.fv), of |-> fvObj.fv]
    /\ fvLast' = FvResult("to_json", "ok", <<>>)
    /\ UNCHANGED <<fvObj, fvBuiltBy>>
    /\ UNCHANGED nonFvVars

\* fv = FeatureView.from_json(json_str, session)
FvFromJson ==
    /\ fvJson.exists
    /\ LET r == from_json(fvJson.doc) IN
       IF r.raised
       THEN /\ fvLast' = FvResult("from_json", "ValueError", <<>>)
            /\ UNCHANGED <<fvObj, fvBuiltBy>>
       ELSE /\ fvObj' = [exists |-> TRUE, fv |-> r.fv]
            /\ fvBuiltBy' = "from_json"
            /\ fvLast' = FvResult("from_json", "ok", <<>>)
    /\ UNCHANGED fvJson
    /\ UNCHANGED nonFvVars

\* fv.fully_qualified_name()
FvFullyQualifiedName ==
    /\ fvObj.exists
    /\ LET r == fully_qualified_name(fvObj.fv) IN
       fvLast' = FvResult("fully_qualified_name", r.outcome, r.returned)
    /\ UNCHANGED <<fvObj, fvJson, fvBuiltBy>>
    /\ UNCHANGED nonFvVars

InitFeatureView ==
    /\ fvObj = NoFv
    /\ fvJson = NoJson
    /\ fvBuiltBy = "none"
    /\ fvLast = FvResult("none", "none", <<>>)

NextFeatureView ==
    FvConstruct \/ FvRegister \/ FvAttach \/ FvToJson \/ FvFromJson \/ FvFullyQualifiedName

(***************************************************************************)
(*             MODEL PACKAGER: artifacts of a loaded custom model          *)
(***************************************************************************)

\* Values written into the artifact file "bias".
ArtifactValues == {10, 20}

NoInstance == [some |-> FALSE]
NoPredict == [op |-> "none"]

\* save_model of a DemoModelWithArtifacts built from a bias file, with the
\* signature inferred from a sample and its prediction.
PkSaveCustom ==
    /\ \E dir \in Dirs, b \in ArtifactValues, x \in Samples :
          LET m == DemoModelWithArtifacts(b) IN
          ModelPackager_save(dir, m,
              Some([k \in {"predict"} |-> infer_signature(x, Predict(m, "predict", x))]),
              None, Some([k \in {"author"} |-> "halu"]), None)
    /\ UNCHANGED <<runVars, expVars, loadVars, mtVars, fvVars, cmVars, lmVars, paVars, trVars, cxVars, moreVars>>

\* m, meta = load_model(dir): the caller keeps the instance.
PkLoadHeld ==
    /\ \E dir \in Dirs :
          /\ ModelPackager_load(dir, FALSE)
          /\ pkHeld' = [some |-> TRUE, dir |-> dir, model |-> pkLast'.model,
                        artifacts_read |-> pkDisk[dir].artifacts]
    /\ UNCHANGED pkPredicted
    /\ UNCHANGED <<runVars, expVars, loadVars, mtVars, fvVars, cmVars, lmVars, trVars, cxVars, moreVars>>

\* open(<dir>/models/<name>/artifacts/bias, "w").write(v): the packaged
\* artifact file is overwritten.
PkOverwriteArtifact ==
    /\ \E dir \in Dirs, v \in ArtifactValues :
          /\ pkDisk[dir].present
          /\ "bias" \in DOMAIN pkDisk[dir].artifacts
          /\ pkDisk[dir].artifacts["bias"] # v
          /\ pkDisk' = [pkDisk EXCEPT ![dir].artifacts["bias"] = v]
    /\ UNCHANGED <<pkSaved, pkLast, paVars>>
    /\ UNCHANGED <<runVars, expVars, loadVars, mtVars, fvVars, cmVars, lmVars, trVars, cxVars, moreVars>>

\* m.predict(d) on the instance the caller kept.
PkHeldPredict ==
    /\ pkHeld.some
    /\ \E x \in Samples :
          pkPredicted' = [op |-> "predict", x |-> x,
                          result |-> Predict(pkHeld.model, "predict", x),
                          artifacts_on_disk |-> pkDisk[pkHeld.dir].artifacts]
    /\ UNCHANGED <<pkVars, pkHeld>>
    /\ UNCHANGED <<runVars, expVars, loadVars, mtVars, fvVars, cmVars, lmVars, trVars, cxVars, moreVars>>

IdleArtifacts ==
    /\ pkHeld = NoInstance
    /\ pkPredicted = NoPredict

NextArtifacts ==
    PkSaveCustom \/ PkLoadHeld \/ PkLoad \/ PkOverwriteArtifact \/ PkHeldPredict

(***************************************************************************)
(*                          MODEL COMPOSER                                 *)
(***************************************************************************)

MODEL_DIR_REL_PATH == "model"

\* ModelComposer.model_file_rel_path: f"model-{uuid.uuid4().hex}.zip"
model_file_rel_path == "model-uuid.zip"

\* Save options: None, or a dict with _legacy_save and embed_local_ml_library.
ComposerOptions ==
    {None} \cup {Some([legacy_save |-> l, embed_local_ml_library |-> e]) :
                    l \in BOOLEAN, e \in BOOLEAN}

\* if not options: options = BaseModelSaveOption()
OptionsOrDefault(options) ==
    IF options.some THEN options.v
    ELSE [legacy_save |-> FALSE, embed_local_ml_library |-> FALSE]

\* The embed_local_ml_library option after the conda-channel lookup: outside a
\* stored procedure, no matching server version switches it on.
EmbedLocalMlLibrary(options, in_stored_procedure, snowml_matched_versions) ==
    IF ~in_stored_procedure /\ snowml_matched_versions < 1
       /\ ~OptionsOrDefault(options).embed_local_ml_library
    THEN TRUE
    ELSE OptionsOrDefault(options).embed_local_ml_library

\* The collaborator calls of save that can raise.
ComposerSteps == {"get_matched_package_versions", "packager.save", "copytree",
                  "make_archive", "manifest.save", "upload_directory_to_stage"}

\* Mutant of SaveStepsPlanned: the loose files are never copied.
SaveStepsPlanned_NoCopytree(options, in_stored_procedure) ==
    (IF in_stored_procedure THEN <<>> ELSE <<"get_matched_package_versions">>)
    \o <<"packager.save", "make_archive", "manifest.save", "upload_directory_to_stage">>

\* The calls save makes, in order, when none of them raises.
SaveStepsPlanned(options, in_stored_procedure) ==
    (IF in_stored_procedure THEN <<>> ELSE <<"get_matched_package_versions">>)
    \o <<"packager.save">>
    \o (IF OptionsOrDefault(options).legacy_save THEN <<>> ELSE <<"copytree">>)
    \o <<"make_archive", "manifest.save", "upload_directory_to_stage">>

\* Index of the first call that raises (0: none does): the call the
\* environment makes fail, or packager.save refusing its arguments.
FirstFailure(steps, fail, packager_ok) ==
    LET failing == {i \in 1..Len(steps) :
                       \/ steps[i] = fail
                       \/ steps[i] = "packager.save" /\ ~packager_ok}
    IN IF failing = {} THEN 0
       ELSE CHOOSE i \in failing : \A j \in failing : i <= j

\* Mutant of ExecutedSteps: a failed upload is attempted once more.
ExecutedSteps_RetryUpload(steps, first_failure) ==
    IF first_failure = 0 THEN steps
    ELSE IF steps[first_failure] = "upload_directory_to_stage"
    THEN SubSeq(steps, 1, first_failure) \o <<"upload_directory_to_stage">>
    ELSE SubSeq(steps, 1, first_failure)

\* The calls save makes: an exception ends the method at the call that raised.
ExecutedSteps(steps, first_failure) ==
    IF first_failure = 0 THEN steps ELSE SubSeq(steps, 1, first_failure)

\* The calls that returned normally.
CompletedSteps(steps, first_failure) ==
    IF first_failure = 0 THEN {steps[i] : i \in 1..Len(steps)}
    ELSE {steps[i] : i \in 1..(first_failure - 1)}

EmptyWorkspace == [model_dir |-> NoPkg, archive |-> NoPkg, manifest |-> None]
EmptyStage == EmptyWorkspace

\* What the packager writes into its workspace.
PackagerOutput(name, m, out, metadata) ==
    [present |-> TRUE, blob |-> Serialize(m),
     meta |-> [name |-> name, signatures |-> out.signatures,
               metadata |-> metadata, model_type |-> m.kind],
     artifacts |-> m.artifacts]

\* ModelManifest.save: MANIFEST.yml naming the archive and the model's methods.
ManifestOf(pkg, embed_local_ml_library) ==
    Some([model_file_rel_path |-> model_file_rel_path,
          name |-> pkg.meta.name,
          methods |-> DOMAIN pkg.meta.signatures,
          embed_local_ml_library |-> embed_local_ml_library])

\* The workspace after save: what the completed calls wrote into it
\* (copytree into MODEL_DIR_REL_PATH, make_archive into model_local_path).
WorkspaceAfter(done, pkg, embed_local_ml_library) ==
    [model_dir |-> IF "copytree" \in done THEN pkg ELSE NoPkg,
     archive |-> IF "make_archive" \in done THEN pkg ELSE NoPkg,
     manifest |-> IF "manifest.save" \in done
                  THEN ManifestOf(pkg, embed_local_ml_library) ELSE None]

\* What an interrupted upload can leave on the stage: any part of the workspace.
PartialUploads(ws) ==
    {[model_dir |-> IF "model_dir" \in part THEN ws.model_dir ELSE NoPkg,
      archive |-> IF "archive" \in part THEN ws.archive ELSE NoPkg,
      manifest |-> IF "manifest" \in part THEN ws.manifest ELSE None] :
        part \in SUBSET {"model_dir", "archive", "manifest"}}

NoComposer == [op |-> "none", outcome |-> "none"]

\* ModelComposer.__init__: two fresh temporary directories, for a stage path
\* the caller has just prepared.
ModelComposer_init ==
    /\ cmPackagerWorkspace' = NoPkg
    /\ cmWorkspace' = EmptyWorkspace
    /\ cmLast' = [op |-> "__init__", outcome |-> "ok"]
    /\ cmStage' = EmptyStage

\* ModelComposer.save
ModelComposer_save(name, m, signatures, sample_input, metadata, target_methods, options, in_stored_procedure, snowml_matched_versions, fail) ==
    LET out == SaveOutcome(m, signatures, sample_input, target_methods)
        steps == SaveStepsPlanned(options, in_stored_procedure)
        ff == FirstFailure(steps, fail, out.ok)
        done == CompletedSteps(steps, ff)
        embed == EmbedLocalMlLibrary(options, in_stored_procedure, snowml_matched_versions)
        pkg == IF out.ok THEN PackagerOutput(name, m, out, metadata) ELSE NoPkg
        ws == WorkspaceAfter(done, pkg, embed)
        call == [name |-> name, model |-> m, options |-> options,
                 in_stored_procedure |-> in_stored_procedure, fail |-> fail]
    IN
    /\ cmLast.op = "__init__"
    /\ cmPackagerWorkspace' = IF "packager.save" \in done THEN pkg ELSE NoPkg
    /\ cmWorkspace' = ws
    /\ IF ff = 0
       THEN cmStage' = ws
       ELSE IF steps[ff] = "upload_directory_to_stage"
       THEN cmStage' \in PartialUploads(ws) \ {ws}
       ELSE UNCHANGED cmStage
    /\ cmLast' = [op |-> "save", call |-> call,
                  outcome |-> IF ff = 0 THEN "ok" ELSE "raised",
                  raised_by |-> IF ff = 0 THEN "none" ELSE steps[ff],
                  error |-> IF ff = 0 THEN "none"
                            ELSE IF steps[ff] = fail THEN "error of " \o fail
                            ELSE out.error,
                  steps |-> ExecutedSteps(steps, ff),
                  stage_before |-> cmStage]

\* ModelComposer.__del__: both temporary directories are removed.
ModelComposer_del ==
    /\ cmLast.op \in {"__init__", "save"}
    /\ cmPackagerWorkspace' = NoPkg
    /\ cmWorkspace' = EmptyWorkspace
    /\ cmLast' = [op |-> "__del__", outcome |-> "ok"]
    /\ UNCHANGED cmStage

\* The arguments of the packager that save passes through.
ComposerSaveArgs(m) ==
    {<<None, None, None>>}
    \cup {<<Some([k \in K |-> infer_signature(x, Predict(m, "predict", x))]), None, None>> :
            K \in {{"predict"}, {"predict", "another_predict"}}, x \in Samples}
    \cup {<<None, Some(x), tm>> : x \in Samples, tm \in TargetMethodOptions}

ComposerFailures == {"none"} \cup ComposerSteps

ComposerInit ==
    /\ cmLast.op \in {"none", "__del__"}
    /\ ModelComposer_init
    /\ UNCHANGED <<coreVars, lmVars, paVars, trVars, cxVars, moreVars>>

ComposerSave ==
    /\ cmLast.op = "__init__"
    /\ \E m \in Models, options \in ComposerOptions, in_stored_procedure \in BOOLEAN,
          snowml_matched_versions \in {0, 1}, fail \in ComposerFailures :
       \E a \in ComposerSaveArgs(m) :
           ModelComposer_save("model1", m, a[1], a[2], None, a[3],
                              options, in_stored_procedure, snowml_matched_versions, fail)
    /\ UNCHANGED <<coreVars, lmVars, paVars, trVars, cxVars, moreVars>>

ComposerDel ==
    /\ ModelComposer_del
    /\ UNCHANGED <<coreVars, lmVars, paVars, trVars, cxVars, moreVars>>

IdleComposer ==
    /\ cmPackagerWorkspace = NoPkg
    /\ cmWorkspace = EmptyWorkspace
    /\ cmStage = EmptyStage
    /\ cmLast = NoComposer

NextComposer == ComposerInit \/ ComposerSave \/ ComposerDel

(***************************************************************************)
(*                     MODEL MANAGER: log_model                            *)
(***************************************************************************)

\* Names a caller passes to log_model.
LogModelNames == {"MODEL", "model"}
LogVersionNames == {"V1", "v1", "v2"}
LogComments == {None, Some("this is comment")}
LogMetrics == {None, Some([k \in {"a"} |-> 1])}

\* The collaborator calls of log_model that can raise.
LogModelFailures == {"none", "ModelComposer.save", "create_from_stage"}

EmptyRegistry == [c \in {} |-> 0]

\* model_ops.validate_existence(model_name[, version_name])
validate_existence_model(registry, model_name) ==
    \E c \in DOMAIN registry : c[1] = model_name
validate_existence_version(registry, model_name, version_name) ==
    <<model_name, version_name>> \in DOMAIN registry

\* Mutant of LogModelExists: an existing version is not looked for.
LogModelExists_Unchecked(registry, model_name, version_name) == FALSE

\* The existence test of log_model: the version is looked for only when the
\* model exists.
LogModelExists(registry, model_name, version_name) ==
    /\ validate_existence_model(registry, model_name)
    /\ validate_existence_version(registry, model_name, version_name)

\* The existence checks made.
ExistenceSteps(registry, model_name) ==
    <<"validate_existence(model)">>
    \o (IF validate_existence_model(registry, model_name)
        THEN <<"validate_existence(version)">> ELSE <<>>)

\* Mutant of LogModelPlanned: the registry entry is created before the
\* composed model is saved.
LogModelPlanned_CreateFirst(comment, metrics) ==
    <<"prepare_model_stage_path", "create_from_stage", "ModelComposer.save", "_ref">>
    \o (IF comment.some THEN <<"set_comment">> ELSE <<>>)
    \o (IF metrics.some THEN <<"metadata_ops.save">> ELSE <<>>)

\* The calls log_model makes after the existence checks, when none raises.
LogModelPlanned(comment, metrics) ==
    <<"prepare_model_stage_path", "ModelComposer.save", "create_from_stage", "_ref">>
    \o (IF comment.some THEN <<"set_comment">> ELSE <<>>)
    \o (IF metrics.some THEN <<"metadata_ops.save">> ELSE <<>>)

\* Position of a call in a sequence of calls (0: not in it).
StepIndex(steps, x) ==
    LET hits == {i \in DOMAIN steps : steps[i] = x} IN
    IF hits = {} THEN 0 ELSE CHOOSE i \in hits : \A j \in hits : i <= j

NoLogModel == [op |-> "none", outcome |-> "none", steps |-> <<>>, handle |-> None]

\* ModelManager.log_model
ModelManager_log_model(model_name, version_name, comment, metrics, fail) ==
    LET model_id == SqlIdentifier(model_name)
        version_id == SqlIdentifier(version_name)
        call == [model_name |-> model_name, version_name |-> version_name,
                 comment |-> comment, metrics |-> metrics, fail |-> fail]
        checks == ExistenceSteps(lmRegistry, model_id)
        planned == LogModelPlanned(comment, metrics)
        ff == StepIndex(planned, fail)
        made == IF ff = 0 THEN planned ELSE SubSeq(planned, 1, ff)
        done == IF ff = 0 THEN {planned[i] : i \in DOMAIN planned}
                ELSE {planned[i] : i \in 1..(ff - 1)}
        \* the stage path holds the composed model once save has returned
        uploaded == /\ "ModelComposer.save" \in done
                    /\ StepIndex(planned, "ModelComposer.save")
                          < StepIndex(planned, "create_from_stage")
        entry == [uploaded |-> uploaded,
                  comment |-> IF "set_comment" \in done THEN comment ELSE None,
                  metrics |-> IF "metadata_ops.save" \in done THEN metrics.v
                              ELSE EmptyMetrics]
    IN
    IF LogModelExists(lmRegistry, model_id, version_id)
    THEN /\ lmLast' = [op |-> "log_model", call |-> call, outcome |-> "ValueError",
                       message |-> "Model " \o model_id \o " version " \o version_id
                                   \o " already existed.",
                       steps |-> checks, handle |-> None,
                       registry_before |-> lmRegistry]
         /\ UNCHANGED lmRegistry
    ELSE /\ lmLast' = [op |-> "log_model", call |-> call,
                       outcome |-> IF ff = 0 THEN "ok" ELSE "raised",
                       message |-> IF ff = 0 THEN "" ELSE "error of " \o fail,
                       steps |-> checks \o made,
                       handle |-> IF ff = 0
                                  THEN Some([model_name |-> model_id,
                                             version_name |-> version_id])
                                  ELSE None,
                       registry_before |-> lmRegistry]
         /\ lmRegistry' =
              IF "create_from_stage" \in done
              THEN [c \in DOMAIN lmRegistry \cup {<<model_id, version_id>>} |->
                       IF c = <<model_id, version_id>> THEN entry ELSE lmRegistry[c]]
              ELSE lmRegistry

LogModel ==
    /\ \E model_name \in LogModelNames, version_name \in LogVersionNames,
          comment \in LogComments, metrics \in LogMetrics, fail \in LogModelFailures :
          ModelManager_log_model(model_name, version_name, comment, metrics, fail)
    /\ UNCHANGED <<coreVars, cmVars, paVars, trVars, cxVars, moreVars>>

IdleLogModel ==
    /\ lmRegistry = EmptyRegistry
    /\ lmLast = NoLogModel

NextLogModel == LogModel

(***************************************************************************)
(*                       SNOWPARK MODEL TRAINER                            *)
(***************************************************************************)

\* Cap on the procedures registered for one key.
MaxRegistrations == 2

\* Estimators handed to the trainer: class name and the library it is from.
Estimators == {[class_name |-> "LinearRegression", module |-> "sklearn"],
               [class_name |-> "LogisticRegression", module |-> "sklearn"],
               [class_name |-> "XGBClassifier", module |-> "xgboost"]}

\* ModelSpecificationsBuilder.build(model=estimator).__class__.__name__: one
\* specification class per library.
ModelSpecClassName(estimator) ==
    CASE estimator.module = "sklearn" -> "SKLearnModelSpecifications"
      [] estimator.module = "xgboost" -> "XGBoostModelSpecifications"
      [] OTHER -> "LightGBMModelSpecifications"

TrainKinds == {"train", "train_fit_predict", "train_fit_transform"}

\* What each _get_*_wrapper_sproc appends to the specification class name.
KeySuffix(kind) ==
    CASE kind = "train" -> ""
      [] kind = "train_fit_predict" -> "_fit_predict"
      [] OTHER -> "_fit_transform"

\* fit_sproc_key / fit_predict_sproc_key / fit_transform_sproc_key
SprocKey(estimator, kind) == ModelSpecClassName(estimator) \o KeySuffix(kind)

SprocKeys == {SprocKey(e, k) : e \in Estimators, k \in TrainKinds}

\* Messages of exceptions, as sequences of words.
MissingY == <<"fit()", "missing", "1", "required", "positional", "argument:", "'y'">>
Messages == {<<"(1304):">> \o MissingY \o <<"in", "function", "FIT">>,
             <<"fit()", "missing", "1", "required", "positional", "argument:", "'X'">>}

\* pattern in message
Contains(message, pattern) ==
    \E i \in 1..(Len(message) - Len(pattern) + 1) :
        SubSeq(message, i, i + Len(pattern) - 1) = pattern

ExceptionTypes == {"SnowparkClientException", "ValueError"}

\* isinstance(e, SnowparkClientException): SnowparkSQLException is a subclass.
IsSnowparkClientException(e) ==
    e.type \in {"SnowparkClientException", "SnowparkSQLException"}

\* What the stored procedure call does: returns, or raises one of these.
NoException == [type |-> "none"]
FitExceptions ==
    {NoException} \cup {[type |-> t, message |-> m] : t \in ExceptionTypes, m \in Messages}

\* Mutant of TrainRaises: every exception of the procedure is re-raised as it is.
TrainRaises_NoTranslation(e) == e

\* The except clause of train: what reaches the caller when the fit procedure
\* raised e.
TrainRaises(e) ==
    IF IsSnowparkClientException(e) /\ Contains(e.message, MissingY)
    THEN [type |-> "SnowflakeMLException", error_code |-> "NOT_FOUND",
          original_exception |-> [type |-> "RuntimeError", attribute |-> "label_cols"],
          cause |-> e]
    ELSE e

EmptyCache == [k \in {} |-> 0]
NoTrain == [op |-> "none", outcome |-> "none", steps |-> <<>>]

\* Mutant of CachedSproc: the cache is never consulted.
CachedSproc_Never(cache, key) == None

\* if key in self.session._FIT_WRAPPER_SPROCS: return it
CachedSproc(cache, key) ==
    IF key \in DOMAIN cache THEN Some(cache[key]) ELSE None

\* train / train_fit_predict / train_fit_transform: temp stage, upload of the
\* estimator, _get_*_wrapper_sproc (register on a miss), the procedure call,
\* and the fetch of the fitted estimator.
SnowparkModelTrainer_train(kind, estimator, register_fails, e) ==
    LET key == SprocKey(estimator, kind)
        cached == CachedSproc(trCache, key)
        registers == IsNone(cached)
        sproc == IF cached.some THEN cached.v
                 ELSE [key |-> key, registration |-> trRegistered[key] + 1]
        before == <<"_create_temp_stage", "_upload_model_to_stage">>
                  \o (IF registers THEN <<"sproc.register">> ELSE <<>>)
        call == [kind |-> kind, estimator |-> estimator,
                 register_fails |-> register_fails, e |-> e]
    IN
    /\ trRegistered[key] < MaxRegistrations
    /\ IF registers /\ register_fails
       THEN /\ trLast' = [op |-> kind, call |-> call, key |-> key, registered |-> FALSE,
                          sproc |-> None, outcome |-> "raised",
                          exception |-> [type |-> "SnowparkSQLException",
                                         message |-> <<"register", "failed">>],
                          steps |-> before]
            /\ UNCHANGED <<trCache, trRegistered>>
       ELSE /\ trCache' = IF registers
                          THEN [k \in DOMAIN trCache \cup {key} |->
                                   IF k = key THEN sproc ELSE trCache[k]]
                          ELSE trCache
            /\ trRegistered' = IF registers
                               THEN [trRegistered EXCEPT ![key] = @ + 1]
                               ELSE trRegistered
            /\ trLast' =
                 IF e.type = "none"
                 THEN [op |-> kind, call |-> call, key |-> key, registered |-> registers,
                       sproc |-> Some(sproc), outcome |-> "ok", exception |-> NoException,
                       steps |-> before \o <<"call sproc", "_fetch_model_from_stage">>]
                 ELSE [op |-> kind, call |-> call, key |-> key, registered |-> registers,
                       sproc |-> Some(sproc), outcome |-> "raised",
                       exception |-> IF kind = "train" THEN TrainRaises(e) ELSE e,
                       steps |-> before \o <<"call sproc">>]

Train ==
    /\ \E estimator \in Estimators, register_fails \in BOOLEAN, e \in FitExceptions :
          SnowparkModelTrainer_train("train", estimator, register_fails, e)
    /\ UNCHANGED <<coreVars, cmVars, lmVars, paVars, cxVars, moreVars>>

TrainFitPredict ==
    /\ \E estimator \in Estimators, register_fails \in BOOLEAN, e \in FitExceptions :
          SnowparkModelTrainer_train("train_fit_predict", estimator, register_fails, e)
    /\ UNCHANGED <<coreVars, cmVars, lmVars, paVars, cxVars, moreVars>>

TrainFitTransform ==
    /\ \E estimator \in Estimators, register_fails \in BOOLEAN, e \in FitExceptions :
          SnowparkModelTrainer_train("train_fit_transform", estimator, register_fails, e)
    /\ UNCHANGED <<coreVars, cmVars, lmVars, paVars, cxVars, moreVars>>

\* A new session has no _FIT_WRAPPER_SPROCS; the first call makes it {}.
IdleTrainer ==
    /\ trCache = EmptyCache
    /\ trRegistered = [k \in SprocKeys |-> 0]
    /\ trLast = NoTrain

NextTrainer == Train \/ TrainFitPredict \/ TrainFitTransform

(***************************************************************************)
(*                          CORTEX COMPLETE                                *)
(***************************************************************************)

\* Python types of the model and prompt arguments.
CortexModelTypes == {"str", "Column"}
CortexPromptTypes == {"str", "list", "Column", "dict"}
CortexOptions == {"None", "dict", "Column"}
\* The session passed or active: usable, none at all, without host, or
\* without REST token.
CortexSessions == {"ok", "none", "no_host", "no_token"}
\* What the service answers to a request that is sent.
CortexResponses == {"ok", "bad_json"}

\* The result of a call: what is returned or raised, and what was sent.
CxResult(outcome, detail, rest_requests, sql_calls) ==
    [outcome |-> outcome, detail |-> detail,
     rest_requests |-> rest_requests, sql_calls |-> sql_calls]

\* _call_complete_rest followed by _process_rest_response
call_complete_rest(model, prompt, options, session, stream, response) ==
    IF session = "none"
    THEN CxResult("SnowflakeAuthenticationException", "Session required.", 0, 0)
    ELSE IF session = "no_host"
    THEN CxResult("SnowflakeConfigurationException",
                  "Snowflake connection configuration does not specify 'host'", 0, 0)
    ELSE IF session = "no_token"
    THEN CxResult("SnowflakeAuthenticationException",
                  "Snowflake session error: REST token missing.", 0, 0)
    ELSE IF stream
    THEN CxResult("ok", "Iterator[str]", 1, 0)
    ELSE IF response = "bad_json"
    THEN CxResult("ResponseParseException", "Failed to parse message from response.", 1, 0)
    ELSE CxResult("ok", "str", 1, 0)

\* _complete_call_sql_function_immediate
complete_call_sql_function_immediate(model, prompt, options, session) ==
    IF session = "none"
    THEN CxResult("SnowflakeAuthenticationException", "Session required.", 0, 0)
    ELSE CxResult("ok", "str", 0, 1)

\* _complete_sql_impl
complete_sql_impl(model, prompt, options, session) ==
    IF prompt = "Column"
    THEN CxResult("ok", "Column", 0, 0)
    ELSE IF model = "Column"
    THEN CxResult("ValueError",
                  "'model' cannot be a snowpark.Column when 'prompt' is a string.", 0, 0)
    ELSE IF options = "Column"
    THEN CxResult("ValueError",
                  "'options' cannot be a snowpark.Column when 'prompt' is a string.", 0, 0)
    ELSE complete_call_sql_function_immediate(model, prompt, options, session)

\* Mutant of complete_impl: no argument checks; the stream flag is ignored
\* outside REST mode.
complete_impl_Unchecked(model, prompt, options, session, use_rest_api_experimental, stream, response) ==
    IF use_rest_api_experimental
    THEN call_complete_rest(model, prompt, options, session, stream, response)
    ELSE complete_sql_impl(model, prompt, options, session)

\* _complete_impl
complete_impl(model, prompt, options, session, use_rest_api_experimental, stream, response) ==
    IF use_rest_api_experimental
    THEN IF model # "str"
         THEN CxResult("ValueError", "in REST mode, 'model' must be a string", 0, 0)
         ELSE IF prompt # "str" /\ prompt # "list"
         THEN CxResult("ValueError",
                 "in REST mode, 'prompt' must be a string or a list of ConversationMessage", 0, 0)
         ELSE call_complete_rest(model, prompt, options, session, stream, response)
    ELSE IF stream = TRUE
    THEN CxResult("ValueError",
            "streaming can only be enabled in REST mode, set use_rest_api_experimental=True", 0, 0)
    ELSE complete_sql_impl(model, prompt, options, session)

NoComplete == [op |-> "none"]

\* Complete: _complete_impl, a ValueError re-raised as it is.
Complete ==
    /\ \E model \in CortexModelTypes, prompt \in CortexPromptTypes,
          options \in CortexOptions, session \in CortexSessions,
          use_rest_api_experimental \in BOOLEAN, stream \in BOOLEAN,
          response \in CortexResponses :
          cxLast' = [op |-> "Complete",
                     call |-> [model |-> model, prompt |-> prompt, options |-> options,
                               session |-> session,
                               use_rest_api_experimental |-> use_rest_api_experimental,
                               stream |-> stream, response |-> response],
                     result |-> complete_impl(model, prompt, options, session,
                                              use_rest_api_experimental, stream, response)]
    /\ UNCHANGED <<coreVars, cmVars, lmVars, paVars, trVars, moreVars>>

IdleCortex == cxLast = NoComplete

NextCortex == Complete

\* The groups of variables added after the feature view, at rest.
(***************************************************************************)
(*                      GRID SEARCH: GridSearchCV                          *)
(* The wrapper keeps two marks of a fit: _is_fitted, which _batch_inference *)
(* looks at, and _model_signature_dict, which the model_signatures property *)
(* looks at. fit sets the first, then builds the second.                    *)
(***************************************************************************)

InferenceMethods ==
    {"predict", "transform", "predict_proba", "predict_log_proba", "decision_function"}
PROB_FUNCTIONS == {"predict_log_proba", "predict_proba", "decision_function"}
DatasetKinds == {"snowpark", "pandas"}

\* Estimators handed to the constructor: their _estimator_type and the
\* methods original_estimator_has_callable finds on them.
GsEstimators ==
    {[estimator_type |-> "classifier",
      callable |-> {"predict", "predict_proba", "predict_log_proba", "decision_function"}],
     [estimator_type |-> "regressor", callable |-> {"predict"}],
     [estimator_type |-> "clusterer", callable |-> {"predict", "transform"}],
     [estimator_type |-> "none", callable |-> {"transform"}]}

\* What can go wrong inside fit: the trainer raises, or the signature
\* inference raises.
FitFailures == {"none", "train", "infer_signature"}

\* @available_if(original_estimator_has_callable(method))
available_if(estimator, method) == method \in estimator.callable

\* _get_model_signatures: the methods that get a signature. The dictionary is
\* assigned empty first; an exception of _infer_signature leaves it empty.
get_model_signatures(estimator, fail) ==
    IF fail = "infer_signature" THEN {}
    ELSE (IF available_if(estimator, "predict")
             /\ estimator.estimator_type \in {"classifier", "regressor"}
          THEN {"predict"} ELSE {})
         \cup {f \in PROB_FUNCTIONS : available_if(estimator, f)}

\* The model_signatures property.
model_signatures_property(signature_dict) ==
    IF IsNone(signature_dict)
    THEN [raised |-> TRUE, error_code |-> "INVALID_ATTRIBUTE",
          message |-> <<"Estimator not fitted before accessing property model_signatures!">>]
    ELSE [raised |-> FALSE, error_code |-> "", message |-> <<>>]

GsRaise(error_code, original_exception, message) ==
    [outcome |-> "SnowflakeMLException", error_code |-> error_code,
     original_exception |-> original_exception, message |-> message,
     udf_registered |-> 0, batch_inference |-> <<>>, sklearn_inference |-> <<>>]

\* _batch_inference(dataset, inference_method, ...)
batch_inference(is_fitted, has_session, inference_method, expected_output_cols_type) ==
    IF ~is_fitted
    THEN GsRaise("METHOD_NOT_ALLOWED", "RuntimeError",
                 <<"Estimator ", "GridSearchCV", " not fitted before calling ",
                   inference_method, " method.">>)
    ELSE IF ~has_session
    THEN GsRaise("NOT_FOUND", "ValueError",
                 <<"Session must not specified for snowpark dataset.">>)
    ELSE \* SnowparkTransformHandlers.batch_inference registers a pandas_udf
         \* and selects it over the dataset
         [outcome |-> "ok", error_code |-> "", original_exception |-> "", message |-> <<>>,
          udf_registered |-> 1,
          batch_inference |-> <<[inference_method |-> inference_method,
                                 expected_output_cols_type |-> expected_output_cols_type]>>,
          sklearn_inference |-> <<>>]

\* _sklearn_inference(dataset, inference_method, ...): the estimator's own
\* method is called in this process.
sklearn_inference(inference_method) ==
    [outcome |-> "local", error_code |-> "", original_exception |-> "", message |-> <<>>,
     udf_registered |-> 0, batch_inference |-> <<>>,
     sklearn_inference |-> <<inference_method>>]

\* predict / transform / predict_proba / predict_log_proba /
\* decision_function on a dataset of the given kind.
InferenceOutcome(is_fitted, signature_dict, method, dataset, has_session) ==
    IF dataset = "snowpark"
    THEN IF method = "predict"
         THEN LET sigs == model_signatures_property(signature_dict) IN
              IF sigs.raised
              THEN GsRaise(sigs.error_code, "RuntimeError", sigs.message)
              ELSE batch_inference(is_fitted, has_session, method,
                                   IF "predict" \in signature_dict.v THEN "inferred" ELSE "")
         ELSE batch_inference(is_fitted, has_session, method,
                              IF method = "transform" THEN "" ELSE "float")
    ELSE sklearn_inference(method)

NoGridSearch == [op |-> "none"]

\* GridSearchCV(estimator=..., param_grid=...)
GridSearchCV_init(estimator) ==
    /\ gsEstimator' = estimator
    /\ gsIsFitted' = FALSE
    /\ gsModelSignatureDict' = None
    /\ gsFitSucceeded' = FALSE
    /\ gsLast' = [op |-> "__init__"]

\* GridSearchCV.fit(dataset)
GridSearchCV_fit(dataset, fail) ==
    /\ gsLast.op # "none"
    /\ IF fail = "train"
       THEN \* model_trainer.train() raised: nothing was assigned
            /\ gsLast' = [op |-> "fit", dataset |-> dataset, outcome |-> "raised"]
            /\ UNCHANGED <<gsIsFitted, gsModelSignatureDict, gsFitSucceeded>>
       ELSE /\ gsIsFitted' = TRUE
            /\ gsModelSignatureDict' = Some(get_model_signatures(gsEstimator, fail))
            /\ gsFitSucceeded' = (gsFitSucceeded \/ fail = "none")
            /\ gsLast' = [op |-> "fit", dataset |-> dataset,
                          outcome |-> IF fail = "none" THEN "ok" ELSE "raised"]
    /\ UNCHANGED gsEstimator

\* One of the five inference methods, called on a dataset.
GridSearchCV_inference(method, dataset, has_session) ==
    /\ gsLast.op # "none"
    /\ available_if(gsEstimator, method)
    /\ gsLast' = [op |-> "inference", method |-> method, dataset |-> dataset,
                  has_session |-> has_session,
                  result |-> InferenceOutcome(gsIsFitted, gsModelSignatureDict, method,
                                              dataset, has_session)]
    /\ UNCHANGED <<gsEstimator, gsIsFitted, gsModelSignatureDict, gsFitSucceeded>>

GsInit ==
    /\ \E estimator \in GsEstimators : GridSearchCV_init(estimator)
    /\ UNCHANGED <<coreVars, cmVars, lmVars, paVars, trVars, cxVars, enVars, hdVars>>

GsFit ==
    /\ \E dataset \in DatasetKinds, fail \in FitFailures : GridSearchCV_fit(dataset, fail)
    /\ UNCHANGED <<coreVars, cmVars, lmVars, paVars, trVars, cxVars, enVars, hdVars>>

GsInference ==
    /\ \E method \in InferenceMethods, dataset \in DatasetKinds, has_session \in BOOLEAN :
          /\ (dataset = "pandas" => has_session)
          /\ GridSearchCV_inference(method, dataset, has_session)
    /\ UNCHANGED <<coreVars, cmVars, lmVars, paVars, trVars, cxVars, enVars, hdVars>>

IdleGridSearch ==
    /\ gsEstimator = [estimator_type |-> "regressor", callable |-> {"predict"}]
    /\ gsIsFitted = FALSE
    /\ gsModelSignatureDict = None
    /\ gsFitSucceeded = FALSE
    /\ gsLast = NoGridSearch

NextGridSearch == GsInit \/ GsFit \/ GsInference

(***************************************************************************)
(*                     FEATURE STORE: Entity                               *)
(* Names and join keys are strings; their lengths and characters are what  *)
(* Entity._validate looks at.                                              *)
(***************************************************************************)

ENTITY_NAME_LENGTH_LIMIT == 32
FEATURE_VIEW_ENTITY_TAG_DELIMITER == ","
ENTITY_JOIN_KEY_DELIMITER == ","
ENTITY_JOIN_KEY_LENGTH_LIMIT == 256

\* The string made of n copies of the one-character string c.
RECURSIVE Rep(_, _)
Rep(c, n) ==
    IF n = 0 THEN ""
    ELSE IF n = 1 THEN c
    ELSE Rep(c, n \div 2) \o Rep(c, n - (n \div 2))

\* `delimiter in s` for a one-character delimiter.
InStr(delimiter, s) == \E i \in 1..Len(s) : SubSeq(s, i, i) = delimiter

\* delimiter.join(strs)
RECURSIVE Join(_, _)
Join(delimiter, strs) ==
    IF Len(strs) = 0 THEN ""
    ELSE IF Len(strs) = 1 THEN strs[1]
    ELSE strs[1] \o delimiter \o Join(delimiter, Tail(strs))

\* len(set(join_keys))
DistinctCount(strs) == Cardinality({strs[i] : i \in DOMAIN strs})

\* Mutant of Entity_validate: the join keys are not searched for the
\* delimiter.
Entity_validate_NoKeyCharCheck(name, join_keys) ==
    IF Len(name) > ENTITY_NAME_LENGTH_LIMIT
    THEN [raised |-> TRUE, error |-> "ValueError", why |-> "name exceeds maximum length"]
    ELSE IF InStr(FEATURE_VIEW_ENTITY_TAG_DELIMITER, name)
    THEN [raised |-> TRUE, error |-> "ValueError", why |-> "name contains invalid char"]
    ELSE IF DistinctCount(join_keys) # Len(join_keys)
    THEN [raised |-> TRUE, error |-> "ValueError", why |-> "duplicate join keys"]
    ELSE IF Len(Join(FEATURE_VIEW_ENTITY_TAG_DELIMITER, join_keys)) > ENTITY_JOIN_KEY_LENGTH_LIMIT
    THEN [raised |-> TRUE, error |-> "ValueError", why |-> "total length of join keys"]
    ELSE [raised |-> FALSE, error |-> "", why |-> ""]

\* Entity._validate: the first check that fails raises ValueError.
Entity_validate(name, join_keys) ==
    IF Len(name) > ENTITY_NAME_LENGTH_LIMIT
    THEN [raised |-> TRUE, error |-> "ValueError", why |-> "name exceeds maximum length"]
    ELSE IF InStr(FEATURE_VIEW_ENTITY_TAG_DELIMITER, name)
    THEN [raised |-> TRUE, error |-> "ValueError", why |-> "name contains invalid char"]
    ELSE IF DistinctCount(join_keys) # Len(join_keys)
    THEN [raised |-> TRUE, error |-> "ValueError", why |-> "duplicate join keys"]
    ELSE IF Len(Join(FEATURE_VIEW_ENTITY_TAG_DELIMITER, join_keys)) > ENTITY_JOIN_KEY_LENGTH_LIMIT
    THEN [raised |-> TRUE, error |-> "ValueError", why |-> "total length of join keys"]
    ELSE IF \E i \in DOMAIN join_keys : InStr(ENTITY_JOIN_KEY_DELIMITER, join_keys[i])
    THEN [raised |-> TRUE, error |-> "ValueError", why |-> "invalid char in join key"]
    ELSE [raised |-> FALSE, error |-> "", why |-> ""]

\* Entity.__init__(name, join_keys, desc): the fields are assigned, then
\* _validate runs; the caller gets the object only when it did not raise.
Entity_init(name, join_keys, desc) ==
    LET v == Entity_validate(name, join_keys) IN
    /\ UNCHANGED enArgs
    /\ enLast' = [op |-> "Entity", name |-> name, join_keys |-> join_keys, desc |-> desc,
                  outcome |-> IF v.raised THEN v.error ELSE "ok", why |-> v.why,
                  returned |-> IF v.raised THEN None
                               ELSE Some(Entity(name, join_keys, desc))]

\* Names and join keys a caller may pass: short ones, ones at the limits and
\* past them, ones with the delimiter.
EntityNames == {"user", Rep("n", 32), Rep("n", 33), "a,b"}
JoinKeyPool == {"uid", "k,1", Rep("a", 127), Rep("b", 128), Rep("c", 129), Rep("d", 257)}
MaxJoinKeys == 2

RECURSIVE JoinKeyLists(_)
JoinKeyLists(n) ==
    IF n = 0 THEN {<<>>}
    ELSE LET shorter == JoinKeyLists(n - 1) IN
         shorter \cup {Append(l, k) : l \in {x \in shorter : Len(x) = n - 1}, k \in JoinKeyPool}

NoEntity == [op |-> "none"]

\* The constructor calls a caller may make.
EntityArgs ==
    [name : EntityNames, join_keys : JoinKeyLists(MaxJoinKeys), desc : {"", "a user"}]

EntityConstruct ==
    /\ enLast.op = "none"
    /\ Entity_init(enArgs.name, enArgs.join_keys, enArgs.desc)
    /\ UNCHANGED <<coreVars, cmVars, lmVars, paVars, trVars, cxVars, gsVars, hdVars>>

InitEntity ==
    /\ enArgs \in EntityArgs
    /\ enLast = NoEntity

IdleEntity ==
    /\ enArgs = [name |-> "user", join_keys |-> <<"uid">>, desc |-> ""]
    /\ enLast = NoEntity

NextEntity == EntityConstruct

(***************************************************************************)
(*          MODEL VERSION HANDLE: all operations of one handle             *)
(* One handle, made by _ref, on which a caller runs functions, reads and   *)
(* writes metrics, the comment and an alias, exports and loads.            *)
(***************************************************************************)

\* Function lists the registry returns to _get_functions when the handle is
\* made: no function, one, two.
HandleFunctionLists ==
    {<<>>,
     <<ModelFunctionInfo("PREDICT", "FUNCTION")>>,
     <<ModelFunctionInfo("PREDICT", "FUNCTION"),
       ModelFunctionInfo("PREDICT_PROBA", "TABLE_FUNCTION")>>}

\* ModelVersion.show_functions
show_functions == mvFunctions

\* The comment setter (and the description setter, which assigns comment):
\* model_ops.set_comment
set_comment(comment) ==
    /\ hdComment' = comment
    /\ hdLast' = [op |-> "set_comment", returned |-> <<>>]
    /\ UNCHANGED <<hdAliases, hdFetched>>

\* The comment getter: model_ops.get_comment
get_comment ==
    /\ hdLast' = [op |-> "get_comment", returned |-> <<hdComment>>]
    /\ UNCHANGED <<hdComment, hdAliases, hdFetched>>

\* ModelVersion.set_alias(alias_name)
set_alias(alias_name) ==
    /\ hdAliases' = hdAliases \cup {SqlIdentifier(alias_name)}
    /\ hdLast' = [op |-> "set_alias", returned |-> <<>>]
    /\ UNCHANGED <<hdComment, hdFetched>>

NoHandleOp == [op |-> "none", returned |-> <<>>]

HdRun ==
    /\ \E function_name \in {None, Some("predict"), Some("predict_proba"), Some("explain")} :
          ModelVersion_run(function_name, None, FALSE)
    /\ UNCHANGED <<pkVars, expVars, loadVars, mtVars, fvVars, extVars>>

HdShowFunctions ==
    /\ hdLast' = [op |-> "show_functions", returned |-> show_functions]
    /\ UNCHANGED <<hdComment, hdAliases, hdFetched>>
    /\ UNCHANGED <<coreVars, cmVars, lmVars, paVars, trVars, cxVars, gsVars, enVars>>

HdSetComment ==
    /\ \E comment \in {"first", "second"} : set_comment(comment)
    /\ UNCHANGED <<coreVars, cmVars, lmVars, paVars, trVars, cxVars, gsVars, enVars>>

HdGetComment ==
    /\ get_comment
    /\ UNCHANGED <<coreVars, cmVars, lmVars, paVars, trVars, cxVars, gsVars, enVars>>

HdSetAlias ==
    /\ set_alias("v1")
    /\ UNCHANGED <<coreVars, cmVars, lmVars, paVars, trVars, cxVars, gsVars, enVars>>

HdExport ==
    /\ ModelVersion_export("target", "model")
    /\ UNCHANGED <<pkVars, runVars, loadVars, mtVars, fvVars, extVars>>

HdLoad ==
    /\ \E force \in BOOLEAN : ModelVersion_load(force)
    /\ UNCHANGED <<pkVars, runVars, expVars, mtVars, fvVars, extVars>>

HdSetMetricLoad ==
    /\ set_metric_load(SingleCaller, "a", 1)
    /\ UNCHANGED <<pkVars, runVars, expVars, loadVars, fvVars, extVars>>

HdSetMetricSave ==
    /\ set_metric_save(SingleCaller)
    /\ UNCHANGED <<pkVars, runVars, expVars, loadVars, fvVars, extVars>>

HdDeleteMetricLoad ==
    /\ delete_metric_load(SingleCaller, "a")
    /\ UNCHANGED <<pkVars, runVars, expVars, loadVars, fvVars, extVars>>

HdDeleteMetricSave ==
    /\ delete_metric_save(SingleCaller)
    /\ UNCHANGED <<pkVars, runVars, expVars, loadVars, fvVars, extVars>>

HdGetMetric ==
    /\ get_metric(SingleCaller, "a")
    /\ UNCHANGED <<pkVars, runVars, expVars, loadVars, fvVars, extVars>>

\* ModelVersion._ref: _get_functions is called once and its list is kept.
InitHandle ==
    /\ \E functions \in HandleFunctionLists :
          /\ ModelVersion_ref(functions)
          /\ hdFetched = functions
    /\ mvRun = NoRun
    /\ hdComment = ""
    /\ hdAliases = {}
    /\ hdLast = NoHandleOp

IdleHandle ==
    /\ hdFetched = <<>>
    /\ hdComment = ""
    /\ hdAliases = {}
    /\ hdLast = NoHandleOp

NextHandle ==
    \/ HdRun \/ HdShowFunctions
    \/ HdSetComment \/ HdGetComment \/ HdSetAlias
    \/ HdExport \/ HdLoad
    \/ HdSetMetricLoad \/ HdSetMetricSave
    \/ HdDeleteMetricLoad \/ HdDeleteMetricSave \/ HdGetMetric

IdleExtBase ==
    /\ IdleComposer /\ IdleLogModel /\ IdleArtifacts /\ IdleTrainer /\ IdleCortex
    /\ IdleGridSearch

IdleExt == IdleExtBase /\ IdleEntity /\ IdleHandle

(***************************************************************************)
(*                           SPECIFICATIONS                                *)
(***************************************************************************)

InitSpecPackager ==
    InitPackager /\ IdleRun /\ IdleExport /\ IdleLoad /\ InitMetrics /\ InitFeatureView /\ IdleExt
SpecPackager == InitSpecPackager /\ [][NextPackager]_vars

InitSpecRun ==
    InitRun /\ InitPackager /\ IdleExport /\ IdleLoad /\ InitMetrics /\ InitFeatureView /\ IdleExt
SpecRun == InitSpecRun /\ [][NextRun]_vars

InitSpecExport ==
    InitExport /\ InitPackager /\ IdleRun /\ IdleLoad /\ InitMetrics /\ InitFeatureView /\ IdleExt
SpecExport == InitSpecExport /\ [][NextExport]_vars

InitSpecLoad ==
    InitLoad /\ InitPackager /\ IdleRun /\ IdleExport /\ InitMetrics /\ InitFeatureView /\ IdleExt
SpecLoad == InitSpecLoad /\ [][NextLoad]_vars

InitSpecMetrics ==
    InitMetrics /\ InitPackager /\ IdleRun /\ IdleExport /\ IdleLoad /\ InitFeatureView /\ IdleExt
SpecMetrics == InitSpecMetrics /\ [][NextMetrics]_vars

InitSpecMetricsSingle ==
    InitMetricsSingle /\ InitPackager /\ IdleRun /\ IdleExport /\ IdleLoad /\ InitFeatureView /\ IdleExt
SpecMetricsSingle == InitSpecMetricsSingle /\ [][NextMetricsSingle]_vars

InitSpecFeatureView ==
    InitFeatureView /\ InitPackager /\ IdleRun /\ IdleExport /\ IdleLoad /\ InitMetrics /\ IdleExt
SpecFeatureView == InitSpecFeatureView /\ [][NextFeatureView]_vars

\* The core groups of variables at rest.
IdleCore ==
    InitPackager /\ IdleRun /\ IdleExport /\ IdleLoad /\ InitMetrics /\ InitFeatureView

InitSpecComposer == IdleCore /\ IdleExt
SpecComposer == InitSpecComposer /\ [][NextComposer]_vars

InitSpecLogModel == IdleCore /\ IdleExt
SpecLogModel == InitSpecLogModel /\ [][NextLogModel]_vars

InitSpecArtifacts == IdleCore /\ IdleExt

InitSpecTrainer == IdleCore /\ IdleExt
SpecTrainer == InitSpecTrainer /\ [][NextTrainer]_vars

InitSpecCortex == IdleCore /\ IdleExt
SpecCortex == InitSpecCortex /\ [][NextCortex]_vars
SpecArtifacts == InitSpecArtifacts /\ [][NextArtifacts]_vars

InitSpecEntity == IdleCore /\ IdleExtBase /\ InitEntity /\ IdleHandle
SpecEntity == InitSpecEntity /\ [][NextEntity]_vars

InitSpecHandle ==
    /\ InitHandle
    /\ InitPackager /\ IdleExport /\ IdleLoad /\ InitMetrics /\ InitFeatureView
    /\ IdleExtBase /\ IdleEntity
SpecHandle == InitSpecHandle /\ [][NextHandle]_vars

InitSpecGridSearch == IdleCore /\ IdleExt
SpecGridSearch == InitSpecGridSearch /\ [][NextGridSearch]_vars

(***************************************************************************)
(* Claims about the packager.                                              *)
(***************************************************************************)

PkIsSave(l) == l.call.op = "save"
PkIsLoad(l) == l.call.op = "load"
PkOnlySignatures(c) == c.signatures.some /\ IsNone(c.sample_input)
PkOnlySample(c) == IsNone(c.signatures) /\ c.sample_input.some
PkTargetMethods(c) ==
    IF c.target_methods.some THEN c.target_methods.v ELSE c.model.methods

C2_Original ==
    (PkIsSave(pkLast) /\ PkOnlySignatures(pkLast.call)
        /\ DOMAIN pkLast.call.signatures.v # pkLast.call.model.methods)
    => pkLast.outcome = "ValueError"

\* C2 amended: explicit signatures naming a method the model does not expose
\* make save fail with ValueError, and the directory is left as it was.
C2_UnknownMethodRejected ==
    [][(PkIsSave(pkLast') /\ PkOnlySignatures(pkLast'.call)
          /\ ~(DOMAIN pkLast'.call.signatures.v \subseteq pkLast'.call.model.methods))
       => (pkLast'.outcome = "ValueError" /\ pkDisk' = pkDisk /\ pkSaved' = pkSaved)]_vars

\* C2 witness: predict plus the non-existent another_predict was rejected.
C2_Witness ==
    /\ PkIsSave(pkLast) /\ PkOnlySignatures(pkLast.call)
    /\ DOMAIN pkLast.call.signatures.v = {"predict", "another_predict"}
    /\ pkLast.outcome = "ValueError"

\* C3: save with neither signatures nor sample input, for a model that cannot
\* describe its own signatures, fails with ValueError and writes no package.
C3_NeitherRejected ==
    [][(PkIsSave(pkLast') /\ IsNone(pkLast'.call.signatures)
          /\ IsNone(pkLast'.call.sample_input) /\ ~can_infer(pkLast'.call.model))
       => (pkLast'.outcome = "ValueError" /\ pkDisk' = pkDisk /\ pkSaved' = pkSaved)]_vars

\* C3 witness: a custom model saved with neither was rejected.
C3_Witness ==
    /\ PkIsSave(pkLast)
    /\ IsNone(pkLast.call.signatures) /\ IsNone(pkLast.call.sample_input)
    /\ pkLast.call.model.kind = "custom"
    /\ pkLast.outcome = "ValueError"

\* C4 as stated: both signatures and sample_input fail with ValueError; only
\* signatures succeeds; only sample_input succeeds when the target methods are
\* invokable on the sample.
C4_Original ==
    PkIsSave(pkLast) =>
        LET c == pkLast.call IN
        /\ (c.signatures.some /\ c.sample_input.some) => pkLast.outcome = "ValueError"
        /\ PkOnlySignatures(c) => pkLast.outcome = "ok"
        /\ (PkOnlySample(c) /\ PkTargetMethods(c) \subseteq c.model.methods)
              => pkLast.outcome = "ok"

\* C4 amended: both signatures and sample_input fail with ValueError; only
\* signatures, every key of which is a method of the model, succeeds; only
\* sample_input succeeds when the target methods are invokable on the sample.
C4_ExactlyOneSource ==
    PkIsSave(pkLast) =>
        LET c == pkLast.call IN
        /\ (c.signatures.some /\ c.sample_input.some) => pkLast.outcome = "ValueError"
        /\ (PkOnlySignatures(c) /\ DOMAIN c.signatures.v \subseteq c.model.methods)
              => pkLast.outcome = "ok"
        /\ (PkOnlySample(c) /\ PkTargetMethods(c) \subseteq c.model.methods)
              => pkLast.outcome = "ok"

\* C4 witness: a call passing both was rejected.
C4_Witness ==
    /\ PkIsSave(pkLast)
    /\ pkLast.call.signatures.some /\ pkLast.call.sample_input.some
    /\ pkLast.outcome = "ValueError"

(***************************************************************************)
(* Claims about the model version handle.                                  *)
(***************************************************************************)

IsFileOrNonEmptyDir(entry) ==
    entry.kind = "file" \/ (entry.kind = "dir" /\ entry.entries # {})

\* C5: export to a target path that is a regular file or an existing
\* non-empty directory raises ValueError, makes no download_files call and
\* leaves the file system as it was.
C5_ExportRejectsFileOrNonEmpty ==
    [][(mvExport'.op = "export"
          /\ IsFileOrNonEmptyDir(fs[mvExport'.call.v.target_path]))
       => (/\ mvExport'.outcome = "ValueError"
           /\ mvExport'.download_files = <<>>
           /\ fs' = fs)]_vars

\* C5 witness: an export into a non-empty directory was rejected.
C5_Witness ==
    /\ mvExport.op = "export"
    /\ mvExport.outcome = "ValueError"
    /\ fs[mvExport.call.v.target_path] = Directory({"old.txt"})

\* C6: run without a function name on a version with more than one function
\* fails with ValueError (the ambiguity error, unless the partition column was
\* already rejected) and makes no invoke_method call.
C6_AmbiguousRun ==
    (mvRun.op = "run" /\ ~Truthy(mvRun.call.function_name) /\ Len(mvFunctions) > 1)
    => (/\ mvRun.outcome = "ValueError"
        /\ mvRun.invoke_method = <<>>
        /\ (mvRun.why # "invalid partition column"
               => mvRun.why = "more than 1 target methods"))

\* C6 witness: a run with function_name=None on two functions was rejected as
\* ambiguous.
C6_Witness ==
    /\ mvRun.op = "run"
    /\ IsNone(mvRun.call.function_name)
    /\ Len(mvFunctions) = 2
    /\ mvRun.why = "more than 1 target methods"

NamesNoFunction(function_name) ==
    /\ Truthy(function_name)
    /\ IsValidIdentifier(function_name.v)
    /\ \A i \in DOMAIN mvFunctions : mvFunctions[i].name # SqlIdentifier(function_name.v)

\* C7: run with a function name whose normalized identifier is the name of no
\* function of the version fails with ValueError (method not found, unless the
\* partition column was already rejected) and makes no invoke_method call,
\* whatever the number of functions.
C7_MethodNotFound ==
    (mvRun.op = "run" /\ NamesNoFunction(mvRun.call.function_name))
    => (/\ mvRun.outcome = "ValueError"
        /\ mvRun.invoke_method = <<>>
        /\ (mvRun.why # "invalid partition column" => mvRun.why = "no method with name"))

\* C7 witness: the version has the single function "predict" (quoted, lower
\* case) and run was asked for predict, which normalizes to PREDICT.
C7_Witness ==
    /\ mvRun.op = "run"
    /\ Len(mvFunctions) = 1
    /\ mvFunctions[1].name = "\"predict\""
    /\ mvRun.call.function_name = Some("predict")
    /\ mvRun.why = "no method with name"

HasStep(steps, step, mode, meta_only) ==
    \E i \in DOMAIN steps :
        /\ steps[i].step = step
        /\ steps[i].mode = mode
        /\ steps[i].meta_only = meta_only

LocalDiscrepancies ==
    validate_with_local_env(mvEnv.recorded, mvEnv.local, mvEnv.model_type = "snowml")

\* C8: load with force=False fails with ValueError whenever the validation
\* returns a discrepancy, and then neither downloads in 'model' mode nor calls
\* Composer.load with meta_only=False; load with force=True never fails on a
\* discrepancy: it makes no 'minimal' download, no meta-only load and no
\* validation.
C8_LoadValidation ==
    mvLoad.op = "load" =>
        /\ (~mvLoad.force /\ LocalDiscrepancies # <<>>) =>
              /\ mvLoad.outcome = "ValueError"
              /\ ~HasStep(mvLoad.steps, "download_files", "model", FALSE)
              /\ ~HasStep(mvLoad.steps, "ModelComposer.load", "", FALSE)
              /\ IsNone(mvLoad.model)
        /\ mvLoad.force =>
              /\ mvLoad.outcome = "ok"
              /\ ~HasStep(mvLoad.steps, "download_files", "minimal", FALSE)
              /\ ~HasStep(mvLoad.steps, "ModelComposer.load", "", TRUE)
              /\ ~HasStep(mvLoad.steps, "validate_with_local_env", "", FALSE)

\* C8 witness: an unforced load was refused because the local package version
\* differs from the recorded one.
C8_Witness ==
    /\ mvLoad.op = "load"
    /\ ~mvLoad.force
    /\ mvLoad.outcome = "ValueError"
    /\ mvLoad.validation_errors = <<"package">>

\* C10: two callers set different metrics on the same version; both loaded
\* the metric map before either saved (c saved first, d second, nothing was
\* saved since). Then neither got an error, and the stored map is d's copy
\* with d's metric: c's metric, absent from the map both loaded, is not in it.
C10_LostUpdate ==
    \A c, d \in Callers :
        (/\ c # d
         /\ mtDone[c].op = "set_metric" /\ mtDone[d].op = "set_metric"
         /\ mtDone[c].name # mtDone[d].name
         /\ mtDone[c].read_at = mtDone[d].read_at
         /\ mtDone[c].saved_at = mtDone[c].read_at + 1
         /\ mtDone[d].saved_at = mtDone[c].read_at + 2
         /\ mtSaves = mtDone[d].saved_at
         /\ mtDone[c].name \notin mtDone[c].read_keys)
        => (/\ mtDone[c].outcome = "ok" /\ mtDone[d].outcome = "ok"
            /\ mtDone[c].name \notin DOMAIN mtStore
            /\ mtDone[d].name \in DOMAIN mtStore
            /\ mtStore[mtDone[d].name] = mtDone[d].value)

\* C10 witness: caller 1 set "a", caller 2 set "b", both from the empty map;
\* only "b" is stored.
C10_Witness ==
    /\ mtDone[1].op = "set_metric" /\ mtDone[1].name = "a" /\ mtDone[1].outcome = "ok"
    /\ mtDone[2].op = "set_metric" /\ mtDone[2].name = "b" /\ mtDone[2].outcome = "ok"
    /\ mtDone[1].read_at = 0 /\ mtDone[2].read_at = 0
    /\ mtDone[1].saved_at = 1 /\ mtDone[2].saved_at = 2
    /\ DOMAIN mtStore = {"b"}

\* The metric names other than k have in map m2 what they have in map m1.
OthersKept(m1, m2, k) ==
    \A j \in MetricNames \ {k} :
        /\ (j \in DOMAIN m2) <=> (j \in DOMAIN m1)
        /\ j \in DOMAIN m1 => m2[j] = m1[j]

\* C11: with a single caller, the save of set_metric(k, v) leaves k at v and
\* every other metric as it was when the call started, and a get_metric(k)
\* that follows returns v; the save of delete_metric(k) on an existing metric
\* removes k and leaves every other metric as it was, and a get_metric(k)
\* that follows raises KeyError.
C11_SingleCallerMetrics ==
    [][LET c == SingleCaller IN
       /\ (mtCaller[c].pc = "save" /\ mtCaller'[c].pc = "idle"
            /\ mtCaller[c].op = "set_metric")
          => /\ mtCaller[c].name \in DOMAIN mtStore'
             /\ mtStore'[mtCaller[c].name] = mtCaller[c].value
             /\ OthersKept(mtCaller[c].metrics, mtStore', mtCaller[c].name)
             /\ OthersKept(mtStore, mtStore', mtCaller[c].name)
       /\ (mtCaller[c].pc = "save" /\ mtCaller'[c].pc = "idle"
            /\ mtCaller[c].op = "delete_metric")
          => /\ mtCaller[c].name \in DOMAIN mtCaller[c].metrics
             /\ mtCaller[c].name \notin DOMAIN mtStore'
             /\ OthersKept(mtCaller[c].metrics, mtStore', mtCaller[c].name)
             /\ OthersKept(mtStore, mtStore', mtCaller[c].name)
       /\ (mtDone[c].op = "set_metric" /\ mtDone'[c].op = "get_metric"
            /\ mtDone'[c].name = mtDone[c].name)
          => /\ mtDone'[c].outcome = "ok"
             /\ mtDone'[c].returned = mtDone[c].value
       /\ (mtDone[c].op = "delete_metric" /\ mtDone[c].outcome = "ok"
            /\ mtDone'[c].op = "get_metric" /\ mtDone'[c].name = mtDone[c].name)
          => mtDone'[c].outcome = "KeyError"
      ]_vars

\* C11 witness: the second save of the run was set_metric("b", 2) on a map
\* that held "a", and "a" is still stored next to "b".
C11_Witness ==
    /\ mtDone[SingleCaller].op = "set_metric"
    /\ mtDone[SingleCaller].name = "b" /\ mtDone[SingleCaller].value = 2
    /\ mtDone[SingleCaller].read_keys = {"a"}
    /\ mtDone[SingleCaller].saved_at = 2
    /\ mtCaller[2] = IdleCaller /\ mtDone[2] = NoResult
    /\ DOMAIN mtStore = {"a", "b"} /\ mtStore["b"] = 2

\* C12: get_metric and delete_metric with a name that is not in the stored
\* map end with KeyError; such a delete_metric makes no save (the stored map
\* and the save count are unchanged, and the caller has no save pending), and
\* no delete_metric reaches its save with a name its loaded map lacks.
C12_MissingMetricKeyError ==
    [][\A c \in Callers :
        /\ (mtCaller[c].pc = "idle" /\ mtDone'[c] # mtDone[c]
             /\ mtDone'[c].name \notin DOMAIN mtStore)
           => /\ mtDone'[c].op \in {"get_metric", "delete_metric"}
              /\ mtDone'[c].outcome = "KeyError"
              /\ mtStore' = mtStore
              /\ mtSaves' = mtSaves
              /\ mtCaller'[c].pc = "idle"
        /\ (mtCaller[c].pc = "idle" /\ mtCaller'[c].pc = "save"
             /\ mtCaller'[c].op = "delete_metric")
           => mtCaller'[c].name \in DOMAIN mtStore
        /\ (mtDone'[c].op = "delete_metric" /\ mtDone'[c].outcome = "ok")
           => mtDone'[c].name \in mtDone'[c].read_keys
      ]_vars

\* C12 witness: delete_metric("a") ended with KeyError on a stored map that
\* holds only "b".
C12_Witness ==
    \E c \in Callers :
        /\ mtDone[c].op = "delete_metric" /\ mtDone[c].name = "a"
        /\ mtDone[c].outcome = "KeyError"
        /\ mtDone[c].read_keys = {"b"}
        /\ DOMAIN mtStore = {"b"}

(***************************************************************************)
(* Claims about the composer.                                              *)
(***************************************************************************)

CmSaved == cmLast.op = "save"
CmLegacy == OptionsOrDefault(cmLast.call.options).legacy_save

\* C13 as stated: every successful save, whatever its options, leaves on the
\* stage the model/ directory, the archive and the manifest.
C13_Original ==
    (CmSaved /\ cmLast.outcome = "ok")
    => /\ cmStage.model_dir.present
       /\ cmStage.archive.present
       /\ cmStage.manifest.some

\* C13 (amended): every successful save uploads the workspace as it is, with
\* the archive of the packager output and the manifest naming it; the model/
\* directory mirroring the packager output is in it exactly when the options
\* do not set _legacy_save.
C13_UploadsLooseAndArchive ==
    (CmSaved /\ cmLast.outcome = "ok")
    => /\ cmStage = cmWorkspace
       /\ cmPackagerWorkspace.present
       /\ cmStage.archive = cmPackagerWorkspace
       /\ cmStage.manifest.some
       /\ cmStage.manifest.v.model_file_rel_path = model_file_rel_path
       /\ ~CmLegacy => cmStage.model_dir = cmPackagerWorkspace
       /\ CmLegacy => ~cmStage.model_dir.present

\* C13 witness: a successful save without _legacy_save, with all three on
\* the stage.
C13_Witness ==
    /\ CmSaved /\ cmLast.outcome = "ok"
    /\ cmLast.call.options.some /\ ~CmLegacy
    /\ cmStage.model_dir.present /\ cmStage.archive.present /\ cmStage.manifest.some

Count(seq, x) == Cardinality({i \in DOMAIN seq : seq[i] = x})

\* C14: in a save, the upload is attempted at most once and nothing follows
\* it; a failed upload reaches the caller as the error the upload raised, with
\* the packaged directory, the archive and the manifest (and the loose files,
\* unless _legacy_save) still in the workspaces; when an earlier call fails
\* no upload is attempted and the stage is as it was.
C14_UploadLastOnce ==
    [][(cmLast.op = "__init__" /\ cmLast'.op = "save")
       => LET steps == cmLast'.steps
              up == "upload_directory_to_stage" IN
          /\ Count(steps, up) <= 1
          /\ \A i \in DOMAIN steps : steps[i] = up => i = Len(steps)
          /\ cmLast'.outcome = "ok" => Count(steps, up) = 1
          /\ (cmLast'.outcome = "raised" /\ cmLast'.raised_by = up)
             => /\ Count(steps, up) = 1
                /\ cmLast'.error = "error of " \o up
                /\ cmPackagerWorkspace'.present
                /\ cmWorkspace'.archive = cmPackagerWorkspace'
                /\ cmWorkspace'.manifest.some
                /\ ~OptionsOrDefault(cmLast'.call.options).legacy_save
                   => cmWorkspace'.model_dir = cmPackagerWorkspace'
          /\ (cmLast'.outcome = "raised" /\ cmLast'.raised_by # up)
             => /\ Count(steps, up) = 0
                /\ cmStage' = cmStage
      ]_vars

\* C14 witness: a save whose upload failed, the local artifacts in place.
C14_Witness ==
    /\ CmSaved /\ cmLast.outcome = "raised"
    /\ cmLast.raised_by = "upload_directory_to_stage"
    /\ cmWorkspace.archive.present /\ cmWorkspace.manifest.some
    /\ cmWorkspace.model_dir.present

(***************************************************************************)
(* Claims about log_model.                                                 *)
(***************************************************************************)

\* Call x is in the sequence, and before call y when y is in it too.
Precedes(steps, x, y) ==
    /\ StepIndex(steps, x) > 0
    /\ StepIndex(steps, y) > 0 => StepIndex(steps, x) < StepIndex(steps, y)

\* C15: log_model returns a handle only after the existence check, the stage
\* preparation, ModelComposer.save and create_from_stage, made once each in
\* that order, with the comment and metrics writes only after them; the
\* handle names the requested model and version, whose registry entry was
\* created from an uploaded stage; a call that raised returns no handle.
C15_HandleAfterUpload ==
    /\ lmLast.handle.some
       => LET steps == lmLast.steps IN
          /\ lmLast.outcome = "ok"
          /\ steps[1] = "validate_existence(model)"
          /\ \A x \in {"prepare_model_stage_path", "ModelComposer.save",
                       "create_from_stage", "_ref"} : Count(steps, x) = 1
          /\ Precedes(steps, "validate_existence(model)", "prepare_model_stage_path")
          /\ StepIndex(steps, "validate_existence(version)")
                < StepIndex(steps, "prepare_model_stage_path")
          /\ Precedes(steps, "prepare_model_stage_path", "ModelComposer.save")
          /\ Precedes(steps, "ModelComposer.save", "create_from_stage")
          /\ Precedes(steps, "create_from_stage", "_ref")
          /\ Precedes(steps, "create_from_stage", "set_comment")
          /\ Precedes(steps, "create_from_stage", "metadata_ops.save")
          /\ lmLast.call.comment.some <=> Count(steps, "set_comment") = 1
          /\ lmLast.call.metrics.some <=> Count(steps, "metadata_ops.save") = 1
          /\ lmLast.handle.v = [model_name |-> SqlIdentifier(lmLast.call.model_name),
                                version_name |-> SqlIdentifier(lmLast.call.version_name)]
          /\ <<lmLast.handle.v.model_name, lmLast.handle.v.version_name>>
                \in DOMAIN lmRegistry
    /\ lmLast.outcome \in {"raised", "ValueError"} => IsNone(lmLast.handle)
    /\ \A c \in DOMAIN lmRegistry : lmRegistry[c].uploaded

\* C15 witness: log_model("model", "v1") with a comment and metrics returned
\* the handle of MODEL / V1.
C15_Witness ==
    /\ lmLast.op = "log_model" /\ lmLast.outcome = "ok"
    /\ lmLast.call.model_name = "model" /\ lmLast.call.version_name = "v1"
    /\ lmLast.call.comment.some /\ lmLast.call.metrics.some
    /\ lmLast.handle = Some([model_name |-> "MODEL", version_name |-> "V1"])
    /\ lmRegistry[<<"MODEL", "V1">>].uploaded

\* C16: log_model for a model and a version that both exist raises ValueError
\* with the "already existed" message after the model check and the version
\* check, makes no other call, and leaves the registry as it was.
C16_ExistingVersionRejected ==
    [][\A model_name \in LogModelNames, version_name \in LogVersionNames :
        (/\ lmLast'.op = "log_model"
         /\ lmLast'.registry_before = lmRegistry
         /\ lmLast'.call.model_name = model_name
         /\ lmLast'.call.version_name = version_name
         /\ <<SqlIdentifier(model_name), SqlIdentifier(version_name)>> \in DOMAIN lmRegistry
         /\ lmLast' # lmLast)
        => /\ lmLast'.outcome = "ValueError"
           /\ lmLast'.message = "Model " \o SqlIdentifier(model_name) \o " version "
                                \o SqlIdentifier(version_name) \o " already existed."
           /\ lmLast'.steps = <<"validate_existence(model)", "validate_existence(version)">>
           /\ IsNone(lmLast'.handle)
           /\ lmRegistry' = lmRegistry
      ]_vars

\* C16 witness: log_model("MODEL", "V1") was refused with the message of the
\* test, the entry of MODEL / V1 in place.
C16_Witness ==
    /\ lmLast.op = "log_model" /\ lmLast.outcome = "ValueError"
    /\ lmLast.call.model_name = "MODEL" /\ lmLast.call.version_name = "V1"
    /\ lmLast.message = "Model MODEL version V1 already existed."
    /\ <<"MODEL", "V1">> \in DOMAIN lmRegistry
    /\ lmRegistry = lmLast.registry_before

(***************************************************************************)
(* Claims about artifacts of a loaded custom model.                        *)
(***************************************************************************)

\* What a DemoModelWithArtifacts with this bias predicts on a sample.
PredictionWithBias(m, x, bias) ==
    [dtype |-> x.dtype, rows |-> [i \in DOMAIN x.rows |-> m.weight * x.rows[i] + bias]]

\* What the kept instance, and the instance of the last load, predict now.
HeldPrediction(x) == Predict(pkHeld.model, "predict", x)
LastLoadedPrediction(x) == Predict(pkLast.model, "predict", x)

\* C17: the artifact is read when the instance is constructed. Overwriting the
\* packaged artifact file does not change what an instance loaded before
\* predicts: its predictions use the value the file held when it was loaded,
\* whatever the file holds at the time of the prediction; and a load made
\* after the overwrite returns an instance that predicts with the value the
\* file holds now.
C17_ArtifactsReadAtConstruction ==
    [][/\ (pkHeld.some /\ pkDisk' # pkDisk /\ pkHeld' = pkHeld)
          => \A x \in Samples :
                HeldPrediction(x)' = HeldPrediction(x)
       /\ (pkPredicted' # pkPredicted)
          => pkPredicted'.result =
                PredictionWithBias(pkHeld.model, pkPredicted'.x,
                                   pkHeld.artifacts_read["bias"])
       /\ (PkIsLoad(pkLast') /\ pkLast' # pkLast)
          => \A x \in Samples :
                LastLoadedPrediction(x)' =
                   PredictionWithBias(pkLast'.model, x,
                                      pkDisk[pkLast'.call.dir].artifacts["bias"])
      ]_vars

\* C17 witness: the instance loaded when the file held 10 has just predicted
\* 11 and 14 on the rows 1 and 4 while the file holds 20, and the instance
\* loaded after the overwrite predicts 21 and 24.
C17_Witness ==
    /\ pkHeld.some /\ pkHeld.artifacts_read["bias"] = 10
    /\ pkDisk[pkHeld.dir].artifacts["bias"] = 20
    /\ pkPredicted.op = "predict"
    /\ pkPredicted.x.rows = <<1, 4>> /\ pkPredicted.result.rows = <<11, 14>>
    /\ pkPredicted.artifacts_on_disk["bias"] = 20
    /\ PkIsLoad(pkLast) /\ pkLast.model.bias = 20
    /\ Predict(pkLast.model, "predict", pkPredicted.x).rows = <<21, 24>>

(***************************************************************************)
(* Claims about the trainer.                                               *)
(***************************************************************************)

TrCalled == trLast.op \in TrainKinds

\* C18 as stated: the cache is keyed by the estimator's class name (with the
\* suffix of the wrapper kind).
C18_Original ==
    TrCalled => trLast.key = trLast.call.estimator.class_name \o KeySuffix(trLast.op)

\* C18 (amended): over any sequence of train, train_fit_predict and
\* train_fit_transform calls on one session at most one procedure is
\* registered per cache key; a call whose key is cached registers nothing and
\* uses the cached procedure; an entry once stored is neither replaced nor
\* removed; the key is the class name of the model specification built for
\* the estimator (shared by the estimators of one library) followed by the
\* suffix of the wrapper kind, so keys of different kinds never coincide.
C18_SprocCache ==
    [][/\ \A k \in SprocKeys : trRegistered'[k] <= 1
       /\ \A k \in DOMAIN trCache : k \in DOMAIN trCache' /\ trCache'[k] = trCache[k]
       /\ \A k \in DOMAIN trCache' : trRegistered'[k] = 1
       /\ (trLast'.op \in TrainKinds /\ trLast'.key \in DOMAIN trCache)
          => /\ ~trLast'.registered
             /\ trRegistered' = trRegistered
             /\ trCache' = trCache
             /\ trLast'.sproc = Some(trCache[trLast'.key])
             /\ StepIndex(trLast'.steps, "sproc.register") = 0
       /\ trLast'.op \in TrainKinds
          => /\ trLast'.key = ModelSpecClassName(trLast'.call.estimator)
                                 \o KeySuffix(trLast'.op)
             /\ trLast'.registered => StepIndex(trLast'.steps, "sproc.register") > 0
       /\ \A e1, e2 \in Estimators : \A k1, k2 \in TrainKinds :
             k1 # k2 => SprocKey(e1, k1) # SprocKey(e2, k2)
      ]_vars

\* C18 witness: a train call on a LogisticRegression used the procedure that
\* is cached under the key of the scikit-learn specification, without
\* registering, while the fit_predict wrapper has its own entry.
C18_Witness ==
    /\ trLast.op = "train" /\ trLast.outcome = "ok"
    /\ trLast.call.estimator.class_name = "LogisticRegression"
    /\ ~trLast.registered
    /\ trLast.key = "SKLearnModelSpecifications"
    /\ trLast.sproc = Some(trCache["SKLearnModelSpecifications"])
    /\ "SKLearnModelSpecifications_fit_predict" \in DOMAIN trCache
    /\ trRegistered["SKLearnModelSpecifications"] = 1

\* C19: when the fit procedure raises a SnowparkClientException whose message
\* contains "fit() missing 1 required positional argument: 'y'", train raises
\* SnowflakeMLException with error code NOT_FOUND wrapping a RuntimeError
\* about label_cols; any other SnowparkClientException reaches the caller as
\* it was raised; in both cases no model is fetched from the stage.
C19_TrainErrorTranslation ==
    [][(/\ trLast' # trLast
        /\ trLast'.op = "train"
        /\ StepIndex(trLast'.steps, "call sproc") > 0
        /\ IsSnowparkClientException(trLast'.call.e))
       => LET e == trLast'.call.e IN
          /\ trLast'.outcome = "raised"
          /\ StepIndex(trLast'.steps, "_fetch_model_from_stage") = 0
          /\ Contains(e.message, MissingY)
             => /\ trLast'.exception.type = "SnowflakeMLException"
                /\ trLast'.exception.error_code = "NOT_FOUND"
                /\ trLast'.exception.original_exception =
                      [type |-> "RuntimeError", attribute |-> "label_cols"]
          /\ ~Contains(e.message, MissingY) => trLast'.exception = e
      ]_vars

\* C19 witness: train ended with the NOT_FOUND exception for a procedure error
\* that mentions the missing y.
C19_Witness ==
    /\ trLast.op = "train" /\ trLast.outcome = "raised"
    /\ trLast.exception.type = "SnowflakeMLException"
    /\ trLast.exception.error_code = "NOT_FOUND"
    /\ trLast.exception.cause.type = "SnowparkClientException"
    /\ StepIndex(trLast.steps, "_fetch_model_from_stage") = 0

(***************************************************************************)
(* Claims about Cortex Complete.                                           *)
(***************************************************************************)

\* C20: Complete with stream=True outside REST mode raises ValueError and
\* sends neither a REST request nor a SQL call; in REST mode a model that is
\* not a string, or a prompt that is neither a string nor a list, raises
\* ValueError before any request is sent.
C20_CompleteArgumentErrors ==
    cxLast.op = "Complete" =>
        LET c == cxLast.call
            r == cxLast.result IN
        /\ (c.stream /\ ~c.use_rest_api_experimental)
           => /\ r.outcome = "ValueError"
              /\ r.rest_requests = 0
              /\ r.sql_calls = 0
        /\ (c.use_rest_api_experimental
            /\ (c.model # "str" \/ c.prompt \notin {"str", "list"}))
           => /\ r.outcome = "ValueError"
              /\ r.rest_requests = 0
              /\ r.sql_calls = 0

\* C20 witness: a streaming call outside REST mode, with arguments the SQL
\* path would have run, ended with the ValueError about REST mode.
C20_Witness ==
    /\ cxLast.op = "Complete"
    /\ cxLast.call.stream /\ ~cxLast.call.use_rest_api_experimental
    /\ cxLast.call.model = "str" /\ cxLast.call.prompt = "str"
    /\ cxLast.call.session = "ok"
    /\ cxLast.result.outcome = "ValueError"
    /\ cxLast.result.detail =
          "streaming can only be enabled in REST mode, set use_rest_api_experimental=True"

\* C21: export to a target path that does not exist creates that directory
\* and downloads the model files into it: the export does not fail merely
\* because the directory is absent.
C21_ExportCreatesAbsent ==
    [][(mvExport'.op = "export"
          /\ fs[mvExport'.call.v.target_path].kind = "absent")
       => (/\ mvExport'.outcome = "ok"
           /\ Len(mvExport'.download_files) = 1
           /\ fs'[mvExport'.call.v.target_path] =
                 Directory(DownloadedFiles(mvExport'.call.v.export_mode)))]_vars

\* A run call made without a function name: None, or the empty string.
RunWithoutName(l) == l.op = "run" /\ ~Truthy(l.call.function_name)

\* The partition column of the call is not given, or is a valid identifier.
RunPartitionAccepted(l) ==
    l.call.partition_column.some => IsValidIdentifier(l.call.partition_column.v)

\* The one invoke_method call of l names function f as the registry recorded it.
InvokesExactly(l, f) ==
    /\ Len(l.invoke_method) = 1
    /\ l.invoke_method[1].method_name = f.name
    /\ l.invoke_method[1].method_function_type = f.target_method_function_type
    /\ l.invoke_method[1].signature = f.signature

\* C22 as stated: run without a function name reaches invoke_method if and
\* only if the version has exactly one function, whatever the other arguments.
C22_Original ==
    RunWithoutName(mvRun)
    => ((mvRun.invoke_method # <<>>) <=> (Len(mvFunctions) = 1))

\* C22: run without a function name, with no partition column or a valid one,
\* reaches invoke_method if and only if the version has exactly one function,
\* and then invokes exactly that function once with its recorded name,
\* function type and signature; with zero functions it raises ValueError and
\* invokes nothing. With a partition column that is no valid identifier it
\* raises ValueError and invokes nothing, however many functions there are.
C22_RunWithoutName ==
    RunWithoutName(mvRun)
    => IF RunPartitionAccepted(mvRun)
       THEN /\ (mvRun.invoke_method # <<>>) <=> (Len(mvFunctions) = 1)
            /\ Len(mvFunctions) = 1
                  => (mvRun.outcome = "ok" /\ InvokesExactly(mvRun, mvFunctions[1]))
            /\ Len(mvFunctions) = 0
                  => (mvRun.outcome = "ValueError" /\ mvRun.invoke_method = <<>>)
       ELSE mvRun.outcome = "ValueError" /\ mvRun.invoke_method = <<>>

\* C22 witness: a run without a function name invoked the only function of
\* the version.
C22_Witness ==
    /\ RunWithoutName(mvRun)
    /\ Len(mvFunctions) = 1
    /\ mvRun.outcome = "ok"
    /\ InvokesExactly(mvRun, mvFunctions[1])

\* The steps of a load that talk to the registry or judge the environment, in
\* the order they were made (workspace creation and removal left out).
IsWorkStep(s) == s.step \in {"download_files", "ModelComposer.load", "validate_with_local_env"}
WorkSteps(steps) == SelectSeq(steps, IsWorkStep)

\* The positions in steps of the download in the given mode.
DownloadsAt(steps, mode) ==
    {i \in DOMAIN steps : steps[i].step = "download_files" /\ steps[i].mode = mode}

\* Some step before position j is the step x.
Earlier(steps, x, j) == \E i \in DOMAIN steps : i < j /\ steps[i] = x

\* C23: load with force=False downloads in 'minimal' mode into a temporary
\* validation workspace, calls Composer.load with meta_only=True on it,
\* validates the environment, and only then downloads in 'model' mode into a
\* fresh workspace and calls Composer.load with meta_only=False on that one.
\* The 'model' download never precedes a passed validation, and the
\* validation workspace is removed before the 'model' download starts; it is
\* removed also when the validation fails.
C23_LoadOrder ==
    (mvLoad.op = "load" /\ ~mvLoad.force) =>
        LET steps == mvLoad.steps
            val == "tmp_workspace_for_validation"
            checked == <<DownloadFiles(val, "minimal"), ModelComposer_load(val, TRUE), Validate>>
        IN
        /\ \E ws \in {"workspace"} :
              /\ ws # val
              /\ WorkSteps(steps) =
                    IF mvLoad.outcome = "ok"
                    THEN checked \o <<DownloadFiles(ws, "model"), ModelComposer_load(ws, FALSE)>>
                    ELSE checked
              /\ \A j \in DownloadsAt(steps, "model") : Earlier(steps, Mkdtemp(ws), j)
        /\ \A j \in DownloadsAt(steps, "model") :
              /\ Earlier(steps, Validate, j)
              /\ LocalDiscrepancies = <<>>
              /\ Earlier(steps, Cleanup(val), j)
              /\ \A i \in DOMAIN steps : steps[i].workspace = val => i < j
        /\ \E k \in DOMAIN steps :
              /\ steps[k] = Cleanup(val)
              /\ \A i \in DOMAIN steps : steps[i].workspace = val => i <= k
        /\ (mvLoad.outcome = "ok") <=> (LocalDiscrepancies = <<>>)

\* C23 witness: an unforced load passed the validation and loaded the model.
C23_Witness ==
    /\ mvLoad.op = "load"
    /\ ~mvLoad.force
    /\ mvLoad.outcome = "ok"
    /\ Len(mvLoad.steps) = 8
    /\ mvLoad.steps[7] = DownloadFiles("workspace", "model")

\* An unforced load was refused by the validation and removed its workspace.
C23_RefusedLoadCleansUp ==
    /\ mvLoad.op = "load"
    /\ ~mvLoad.force
    /\ mvLoad.outcome = "ValueError"
    /\ mvLoad.steps[Len(mvLoad.steps)] = Cleanup("tmp_workspace_for_validation")

\* The names of the functions in a list.
NamesOf(functions) == {functions[i].name : i \in DOMAIN functions}

\* C26: every invoke_method call issued by run names a function that is in
\* the list show_functions returns, and that list is the one fetched when the
\* handle was made: no operation of the handle (run, metric, comment, alias,
\* export, load) changes it.
C26_FunctionsFixed ==
    /\ show_functions = hdFetched
    /\ \A i \in DOMAIN mvRun.invoke_method :
          mvRun.invoke_method[i].method_name \in NamesOf(show_functions)
    /\ hdLast.op = "show_functions" => hdLast.returned = hdFetched

\* C26 witness: after a metric was saved, the comment and an alias were set,
\* an export and a load were made, run invoked a function of the list of two
\* that the handle fetched.
C26_Witness ==
    /\ Len(hdFetched) = 2
    /\ mtSaves >= 1
    /\ hdComment # ""
    /\ hdAliases # {}
    /\ mvExport.op = "export"
    /\ mvLoad.op = "load"
    /\ mvRun.op = "run"
    /\ Len(mvRun.invoke_method) = 1
    /\ mvRun.invoke_method[1].method_name = "PREDICT_PROBA"

(***************************************************************************)
(* Claims about grid search.                                               *)
(***************************************************************************)

\* The last call was an inference method on a Snowpark DataFrame, made while
\* no fit call had returned normally.
GsUnfittedSnowparkInference ==
    /\ gsLast.op = "inference"
    /\ gsLast.dataset = "snowpark"
    /\ ~gsFitSucceeded

\* C24: predict, transform, predict_proba, predict_log_proba or
\* decision_function called with a Snowpark DataFrame before fit has
\* succeeded raises SnowflakeMLException with error code METHOD_NOT_ALLOWED
\* ('Estimator GridSearchCV not fitted before calling <method> method.'),
\* registers no UDF and runs no batch inference.
C24_UnfittedInferenceRejected ==
    GsUnfittedSnowparkInference
    => /\ gsLast.result.outcome = "SnowflakeMLException"
       /\ gsLast.result.error_code = "METHOD_NOT_ALLOWED"
       /\ gsLast.result.message =
             <<"Estimator ", "GridSearchCV", " not fitted before calling ",
               gsLast.method, " method.">>
       /\ gsLast.result.udf_registered = 0
       /\ gsLast.result.batch_inference = <<>>

\* predict on a Snowpark DataFrame, before any fit call, is refused by the
\* model_signatures property, not by the fitted check of _batch_inference.
GsUnfittedPredictInvalidAttribute ==
    /\ GsUnfittedSnowparkInference
    /\ gsLast.method = "predict"
    /\ ~gsIsFitted
    /\ gsLast.result.error_code = "INVALID_ATTRIBUTE"

\* A fit call that raised while inferring the signatures left _is_fitted set:
\* the next inference on a Snowpark DataFrame registers a UDF and runs.
GsInferenceAfterFailedFit ==
    /\ GsUnfittedSnowparkInference
    /\ gsIsFitted
    /\ gsLast.result.outcome = "ok"
    /\ gsLast.result.udf_registered = 1

\* The other four methods, before any fit call, are refused as C24 says.
GsUnfittedTransformRejected ==
    /\ GsUnfittedSnowparkInference
    /\ gsLast.method # "predict"
    /\ ~gsIsFitted
    /\ gsLast.result.error_code = "METHOD_NOT_ALLOWED"
    /\ gsLast.result.udf_registered = 0

(***************************************************************************)
(* Claims about the entity.                                                *)
(***************************************************************************)

\* What C25 asks of a name and its join keys.
EntityWellFormed(name, join_keys) ==
    /\ Len(name) <= 32
    /\ ~InStr(",", name)
    /\ \A i, j \in DOMAIN join_keys : join_keys[i] = join_keys[j] => i = j
    /\ \A i \in DOMAIN join_keys : ~InStr(",", join_keys[i])
    /\ Len(Join(",", join_keys)) <= 256

\* C25: every Entity whose constructor returned normally has a name of at
\* most 32 characters without ',', pairwise distinct join keys none of which
\* contains ',', and comma-joined join keys of at most 256 characters; a
\* constructor call that violates any of these raises ValueError.
C25_EntityValidated ==
    enLast.op = "Entity"
    => /\ enLast.outcome = "ok"
            => /\ enLast.returned.some
               /\ EntityWellFormed(enLast.returned.v.name, enLast.returned.v.join_keys)
       /\ ~EntityWellFormed(enLast.name, enLast.join_keys)
            => /\ enLast.outcome = "ValueError"
               /\ IsNone(enLast.returned)

\* C25 witness: a constructor call whose only defect is a ',' in its second
\* join key was refused with ValueError.
C25_Witness ==
    /\ enLast.op = "Entity"
    /\ enLast.name = "user"
    /\ enLast.join_keys = <<"uid", "k,1">>
    /\ enLast.outcome = "ValueError"

\* Two join keys of 127 and 128 characters, 256 when joined, are accepted.
EntityAtJoinKeyLimit ==
    /\ enLast.op = "Entity"
    /\ enLast.outcome = "ok"
    /\ Len(Join(",", enLast.join_keys)) = 256

(***************************************************************************)
(* Claims about the feature view.                                          *)
(***************************************************************************)

\* A view is a draft when its status prints as FeatureViewStatus.DRAFT (the
\* comparison FeatureView.__eq__ makes).
IsDraft(fv) == Str(fv.status) = Str(FeatureViewStatus_DRAFT)

\* C9: fully_qualified_name raises RuntimeError whenever the view's status is
\* DRAFT, however the view was obtained (constructor, or from_json of the
\* to_json output of a draft view).
C9_DraftRaises ==
    (fvLast.op = "fully_qualified_name" /\ IsDraft(fvObj.fv))
    => fvLast.outcome = "RuntimeError"
\* The feature names of a view, in order.
FeatureNamesOf(fv) == [i \in DOMAIN fv.feature_desc |-> fv.feature_desc[i].name]

\* C27: attach_feature_desc is all-or-nothing: when it raises ValueError
\* because some name in descs is not a feature of the view, the feature
\* descriptions of the view are exactly what they were before the call; in
\* every case the set and order of feature names is unchanged.
C27_AttachAllOrNothing ==
    [][fvLast'.op = "attach_feature_desc"
       => /\ FeatureNamesOf(fvObj'.fv) = FeatureNamesOf(fvObj.fv)
          /\ fvLast'.outcome = "ValueError"
                => fvObj'.fv.feature_desc = fvObj.fv.feature_desc]_vars

\* The part of C27 about the feature names alone.
AttachKeepsFeatureNames ==
    [][fvLast'.op = "attach_feature_desc"
       => FeatureNamesOf(fvObj'.fv) = FeatureNamesOf(fvObj.fv)]_vars

\* C28: for every FeatureView fv (any status, with or without attached
\* feature descriptions), FeatureView.from_json(fv.to_json(), session) is
\* equal to fv under FeatureView.__eq__ and has the same status value as fv,
\* session.sql returning a dataframe with the same single query and columns.
C28_JsonRoundTrip ==
    fvLast.op = "from_json"
    => /\ fvLast.outcome = "ok"
       /\ FeatureView_eq(fvObj.fv, fvJson.of)
       /\ fvObj.fv.status = fvJson.of.status

\* A round trip returned a view that is equal to the original under __eq__
\* and whose status is the string form of the original's status.
RoundTripStatusIsString ==
    /\ fvLast.op = "from_json"
    /\ fvLast.outcome = "ok"
    /\ FeatureView_eq(fvObj.fv, fvJson.of)
    /\ fvJson.of.status.enum
    /\ fvObj.fv.status = Str(fvJson.of.status)

\* A round trip of a view with a quoted, lower-case feature name raised
\* ValueError.
RoundTripQuotedFeatureRaises ==
    /\ fvLast.op = "from_json"
    /\ fvLast.outcome = "ValueError"
    /\ HasFeature(fvJson.of.feature_desc, "f2")

\* Whenever from_json returns, the view is equal to the original under
\* __eq__.
RoundTripEqualWhenReturned ==
    (fvLast.op = "from_json" /\ fvLast.outcome = "ok")
    => FeatureView_eq(fvObj.fv, fvJson.of)


=============================================================================
